---- MODULE Spec2Model ----
(***************************************************************************)
(* A model of the Indian Calorie Tracker's persistence layer: the SQLite   *)
(* tables created by initDatabase, the callback-style (WebSQL)             *)
(* transactions of the recipe screens, the promise-style statements of the *)
(* database module, and the screens' handlers that use them.               *)
(*                                                                         *)
(* Platform semantics the model relies on (expo-sqlite):                   *)
(*  - db.transaction(cb) queues a transaction; transactions of one         *)
(*    database run one at a time.  The statements queued by tx.executeSql  *)
(*    run in order, each followed by its success or error callback, and    *)
(*    the transaction commits when its queue is empty.  A statement that   *)
(*    fails rolls the transaction back only if its error callback returns  *)
(*    true; a callback returning false marks the error handled and the     *)
(*    transaction goes on and commits.                                     *)
(*  - runAsync / execAsync / getFirstAsync execute one statement in        *)
(*    autocommit mode; the await that follows is a scheduling point.       *)
(*  - Any statement may fail with a storage error (budget MaxFaults).      *)
(* Quantities are modelled as whole serving multipliers; grams are kept in *)
(* tenths so that every nutrient is an integer.                            *)
(***************************************************************************)
EXTENDS Integers, Sequences, FiniteSets, TLC

VARIABLES
  \* ---- the store ----
  food_items,          \* bag: reference item k |-> number of rows holding it
  recipes,             \* set of rows [id, total_calories, servings]
  recipe_ingredients,  \* set of rows [id, recipe_id, food_id, quantity]
  seqRecipes,          \* AUTOINCREMENT counter of recipes
  seqIngredients,      \* AUTOINCREMENT counter of recipe_ingredients
  \* ---- callback-style transactions and the recipe screens ----
  txn,                 \* the running transaction, or NoTxn
  pc,                  \* session |-> position of its operation
  form,                \* session |-> the inputs of its operation
  alert,               \* session |-> what Alert.alert has shown
  failed,              \* session |-> a statement of its operation failed
  dirty,               \* session |-> another session wrote since it started
  before,              \* session |-> the tables when its operation started
  overlap,             \* session |-> it asked for a transaction while another was open
  \* ---- application start ----
  db,                  \* the database module's handle: "undefined" or "open"
  schema,              \* the CREATE TABLE IF NOT EXISTS script has run
  init,                \* caller |-> the progress of its initDatabase call
  isReady,             \* App's isReady state
  handles,             \* the connections to the store opened so far, by opener
  \* ---- the meal log and the recipe detail screen ----
  food_logs,           \* set of rows of food_logs
  seqFoodLogs,         \* AUTOINCREMENT counter of food_logs
  detail,              \* RecipeDetailScreen: position, recipe, ingredients, alert
  \* ---- water tracking ----
  water_logs,          \* set of rows [id, user_id, amount_ml, date]
  seqWaterLogs,        \* AUTOINCREMENT counter of water_logs
  weeklyData,          \* WaterTrackerScreen's weeklyData state; stale once the table changed
  weeklyCall,          \* the getWeeklyWaterData call in flight; stale likewise
  \* ---- AddFoodScreen ----
  foodForm,            \* the form's last submission and what it ended in
  user_food_items,     \* rows of food_items created through the form
  \* ---- HomeScreen and ProfileScreen ----
  home,                \* HomeScreen's foodLogs and dailySummary state
  profile,             \* ProfileScreen: the profile shown and what is derived from it
  clock,               \* the present instant, as an index into Instants
  users,               \* set of rows of users
  loads,               \* call of loadUserProfile |-> its position
  lookup,              \* the call of getNutritionData under way
  faults               \* storage failures injected so far

storeVars  == <<food_items, recipes, recipe_ingredients, seqRecipes, seqIngredients>>
recipeVars == <<txn, pc, form, alert, failed, dirty, before, overlap>>
initVars   == <<db, schema, init, isReady, handles>>
mealVars   == <<food_logs, seqFoodLogs, detail>>
waterVars  == <<water_logs, seqWaterLogs, weeklyData, weeklyCall>>
foodVars   == <<foodForm, user_food_items>>
homeVars   == <<home, profile>>
userVars   == <<users, loads>>
otherVars  == <<foodVars, homeVars, clock, userVars, lookup>>
vars       == <<storeVars, recipeVars, initVars, mealVars, waterVars, otherVars, faults>>

\* What the recipe screens' actions leave alone.
outsideRecipes == <<initVars, mealVars, waterVars, otherVars>>

\* What application start leaves alone, besides the store.
outsideStart == <<recipeVars, mealVars, waterVars, otherVars>>

-----------------------------------------------------------------------------
(* Bounds *)

MaxIngredients == 2
MaxFaults == 1

Sessions == {"s1", "s2"}
ServingsTexts == {"", "0", "2"}
Names == {"", " ", "Khichdi"}

-----------------------------------------------------------------------------
(* The reference food set of populateInitialFoodData; grams in tenths. *)

foodItems ==
  << [name |-> "Rice (Cooked)",  calories |-> 130, protein |-> 27,  carbs |-> 280, fat |-> 3,   fiber |-> 4],
     [name |-> "Chapati",        calories |-> 120, protein |-> 30,  carbs |-> 200, fat |-> 35,  fiber |-> 12],
     [name |-> "Dal (Toor)",     calories |-> 116, protein |-> 70,  carbs |-> 200, fat |-> 4,   fiber |-> 20],
     [name |-> "Paneer",         calories |-> 265, protein |-> 180, carbs |-> 36,  fat |-> 210, fiber |-> 0],
     [name |-> "Chicken Curry",  calories |-> 243, protein |-> 150, carbs |-> 60,  fat |-> 180, fiber |-> 15],
     [name |-> "Palak Paneer",   calories |-> 180, protein |-> 80,  carbs |-> 100, fat |-> 130, fiber |-> 30],
     [name |-> "Samosa",         calories |-> 262, protein |-> 35,  carbs |-> 240, fat |-> 170, fiber |-> 15],
     [name |-> "Dosa",           calories |-> 168, protein |-> 34,  carbs |-> 290, fat |-> 45,  fiber |-> 12],
     [name |-> "Idli",           calories |-> 78,  protein |-> 21,  carbs |-> 165, fat |-> 1,   fiber |-> 9],
     [name |-> "Butter Chicken", calories |-> 290, protein |-> 180, carbs |-> 80,  fat |-> 220, fiber |-> 10] >>

RefIds == 1..Len(foodItems)

\* The catalogue after one complete seeding: row id k holds reference item k.
SeededCatalogue == [k \in RefIds |-> 1]


-----------------------------------------------------------------------------
(* Pure helpers *)

RECURSIVE SumSeq(_)
SumSeq(s) == IF s = <<>> THEN 0 ELSE Head(s) + SumSeq(Tail(s))

\* The ingredients the recipe forms choose among: two servings of the first
\* catalogue row (260 kcal) or one of the second (120 kcal).
Items == {[food_id |-> 1, quantity |-> 2], [food_id |-> 2, quantity |-> 1]}

\* Every ingredient list the form can hold, the empty one included.
IngredientLists == UNION {[1..n -> Items] : n \in 0..MaxIngredients}

\* JOIN food_items f ON ri.food_id = f.id : the catalogue row of a food id.
JoinFood(fid) == IF fid \in RefIds /\ food_items[fid] > 0 THEN {foodItems[fid]} ELSE {}

\* The calories an ingredient carries in the form: those of the food selected.
ItemCalories(it) == foodItems[it.food_id].calories

\* A total that forgets the serving multiplier.
calculateTotalCaloriesNoQuantity(ingredients) ==
  SumSeq([i \in 1..Len(ingredients) |-> ItemCalories(ingredients[i])])

\* calculateTotalCalories: ingredients.reduce(sum + calories * quantity, 0)
calculateTotalCalories(ingredients) ==
  SumSeq([i \in 1..Len(ingredients) |->
            ItemCalories(ingredients[i]) * ingredients[i].quantity])

-----------------------------------------------------------------------------
(* Application start: the components that call initDatabase on mount *)

Callers == {"App", "ProfileScreen", "RecipesScreen"}

\* A connection SQLite.openDatabaseAsync or openDatabaseSync has returned:
\* every call returns a connection of its own.
Connection(opener, for) == [opener |-> opener, for |-> for]

InitCall(pcv, i, f, after) == [pc |-> pcv, item |-> i, failed |-> f, afterOk |-> after]

NotCalled == InitCall("unmounted", 0, FALSE, FALSE)

-----------------------------------------------------------------------------
(* Form parsing and validation *)

\* name.trim(): a name of blanks only trims to the empty string.
trim(name) == IF name \in {"", " "} THEN "" ELSE name

\* parseInt(servings): NaN for a text that starts with no digit.
parseInt(text) ==
  CASE text = "0" -> [nan |-> FALSE, value |-> 0]
    [] text = "1" -> [nan |-> FALSE, value |-> 1]
    [] text = "2" -> [nan |-> FALSE, value |-> 2]
    [] text = "250" -> [nan |-> FALSE, value |-> 250]
    [] text = "-5" -> [nan |-> FALSE, value |-> -5]
    [] OTHER      -> [nan |-> TRUE,  value |-> 0]

\* The three checks that open saveRecipe and updateRecipe.
ValidRecipeForm(name, servings, ingredients) ==
  /\ trim(name) # ""
  /\ Len(ingredients) # 0
  /\ ~parseInt(servings).nan /\ parseInt(servings).value > 0

-----------------------------------------------------------------------------
(* SQL statements on the recipe tables *)

Stmt(sql, name, rid, fid, q, total, servings) ==
  [sql |-> sql, name |-> name, recipe_id |-> rid, food_id |-> fid, quantity |-> q,
   total_calories |-> total, servings |-> servings]

InsertRecipeStmt(name, total, servings) == Stmt("INSERT recipes", name, 0, 0, 0, total, servings)
UpdateRecipeStmt(rid, name, total, servings) == Stmt("UPDATE recipes", name, rid, 0, 0, total, servings)
DeleteIngredientsStmt(rid) == Stmt("DELETE recipe_ingredients", "", rid, 0, 0, 0, 0)
\* A second statement that repeats the first one's table.
DeleteRecipeStmtWrongTable(rid) == DeleteIngredientsStmt(rid)

DeleteRecipeStmt(rid) == Stmt("DELETE recipes", "", rid, 0, 0, 0, 0)
InsertIngredientStmt(rid, it) == Stmt("INSERT recipe_ingredients", "", rid, it.food_id, it.quantity, 0, 0)

Tables(r, ri, sr, si) ==
  [recipes |-> r, recipe_ingredients |-> ri, seqRecipes |-> sr, seqIngredients |-> si]

EmptyTables == Tables({}, {}, 0, 0)
CurrentTables == Tables(recipes, recipe_ingredients, seqRecipes, seqIngredients)

\* The effect of one successful statement on the tables w.
ExecuteSql(stmt, w) ==
  CASE stmt.sql = "INSERT recipes" ->
         [w EXCEPT !.recipes = @ \cup {[id |-> w.seqRecipes + 1, name |-> stmt.name,
                                        total_calories |-> stmt.total_calories,
                                        servings |-> stmt.servings]},
                   !.seqRecipes = @ + 1]
    [] stmt.sql = "INSERT recipe_ingredients" ->
         [w EXCEPT !.recipe_ingredients =
                       @ \cup {[id |-> w.seqIngredients + 1, recipe_id |-> stmt.recipe_id,
                                food_id |-> stmt.food_id, quantity |-> stmt.quantity]},
                   !.seqIngredients = @ + 1]
    [] stmt.sql = "UPDATE recipes" ->
         [w EXCEPT !.recipes =
             {IF r.id = stmt.recipe_id
                THEN [r EXCEPT !.name = stmt.name, !.total_calories = stmt.total_calories,
                               !.servings = stmt.servings]
                ELSE r : r \in @}]
    [] stmt.sql = "DELETE recipe_ingredients" ->
         [w EXCEPT !.recipe_ingredients = {ri \in @ : ri.recipe_id # stmt.recipe_id}]
    [] stmt.sql = "DELETE recipes" ->
         [w EXCEPT !.recipes = {r \in @ : r.id # stmt.recipe_id}]

\* result.insertId of an INSERT: the rowid the statement has just assigned.
insertId(w) == w.seqRecipes

\* ingredients.forEach(ingredient => tx.executeSql('INSERT INTO recipe_ingredients ...'))
IngredientInserts(rid, ingredients) ==
  [i \in 1..Len(ingredients) |-> InsertIngredientStmt(rid, ingredients[i])]

-----------------------------------------------------------------------------
(* Callback-style transactions: db.transaction(tx => tx.executeSql(...)) *)

NoTxn == [owner |-> "none", queue |-> <<>>, work |-> EmptyTables, rollback |-> FALSE]

NoForm == [op |-> "none", name |-> "", recipeId |-> 0, servings |-> 0, ingredients |-> <<>>]

\* What the error callbacks of the recipe screens return: every one of them
\* ends in `return false`, which marks the error handled.
errorCallback(stmt) == FALSE

\* A callback that attaches the ingredients to the row before the new one.
saveRecipeOnInsertStaleId(w, ingredients) == IngredientInserts(insertId(w) - 1, ingredients)

\* saveRecipe's success callback of the INSERT INTO recipes.
saveRecipeOnInsert(w, ingredients) == IngredientInserts(insertId(w), ingredients)

\* An update that inserts the new rows without deleting the old ones.
updateRecipeOnUpdateMerging(recipeId, ingredients) == IngredientInserts(recipeId, ingredients)

\* updateRecipe's success callback of the UPDATE recipes.
updateRecipeOnUpdate(recipeId, ingredients) == <<DeleteIngredientsStmt(recipeId)>>

\* updateRecipe's success callback of the DELETE FROM recipe_ingredients.
updateRecipeOnDelete(recipeId, ingredients) == IngredientInserts(recipeId, ingredients)

\* The statements a success callback queues, for session s after stmt gave w.
successCallback(s, stmt, w) ==
  CASE form[s].op = "save" /\ stmt.sql = "INSERT recipes" ->
         saveRecipeOnInsert(w, form[s].ingredients)
    [] form[s].op = "update" /\ stmt.sql = "UPDATE recipes" ->
         updateRecipeOnUpdate(form[s].recipeId, form[s].ingredients)
    [] form[s].op = "update" /\ stmt.sql = "DELETE recipe_ingredients" ->
         updateRecipeOnDelete(form[s].recipeId, form[s].ingredients)
    [] OTHER -> <<>>

\* The success callbacks that end in Alert.alert('Success', ...); goBack().
AnnouncesSuccess(s, stmt) ==
  \/ form[s].op = "save" /\ stmt.sql = "INSERT recipes"
  \/ form[s].op = "update" /\ stmt.sql = "DELETE recipe_ingredients"

\* The first statement of the transaction a handler opens.
FirstStatement(f) ==
  IF f.op = "save"
    THEN InsertRecipeStmt(f.name, calculateTotalCalories(f.ingredients), f.servings)
    ELSE UpdateRecipeStmt(f.recipeId, f.name, calculateTotalCalories(f.ingredients),
                          f.servings)

\* Every other session has seen a write since it started.
Dirtied(s) == [t \in Sessions |-> IF t = s THEN dirty[t] ELSE TRUE]

\* Another transaction is running or waiting in the database's queue.
TransactionPending == txn # NoTxn \/ \E t \in Sessions : pc[t] = "queued"

\* CreateRecipeScreen.saveRecipe: validate, then db.transaction(...).
saveRecipe(s, name, servings, ingredients) ==
  /\ pc[s] = "idle"
  /\ IF ValidRecipeForm(name, servings, ingredients)
       THEN /\ form' = [form EXCEPT ![s] =
                  [op |-> "save", name |-> name, recipeId |-> 0,
                   servings |-> parseInt(servings).value, ingredients |-> ingredients]]
            /\ pc' = [pc EXCEPT ![s] = "queued"]
            /\ overlap' = [overlap EXCEPT ![s] = TransactionPending]
            /\ alert' = alert
       ELSE /\ form' = form
            /\ pc' = [pc EXCEPT ![s] = "rejected"]
            /\ alert' = [alert EXCEPT ![s] = "Error"]
            /\ overlap' = overlap
  /\ UNCHANGED <<storeVars, txn, failed, dirty, before, faults>>
  /\ UNCHANGED outsideRecipes

\* EditRecipeScreen.updateRecipe of a recipe the list shows.
updateRecipe(s, recipeId, name, servings, ingredients) ==
  /\ pc[s] = "idle"
  /\ IF ValidRecipeForm(name, servings, ingredients)
       THEN /\ form' = [form EXCEPT ![s] =
                  [op |-> "update", name |-> name, recipeId |-> recipeId,
                   servings |-> parseInt(servings).value, ingredients |-> ingredients]]
            /\ pc' = [pc EXCEPT ![s] = "queued"]
            /\ overlap' = [overlap EXCEPT ![s] = TransactionPending]
            /\ alert' = alert
       ELSE /\ form' = form
            /\ pc' = [pc EXCEPT ![s] = "rejected"]
            /\ alert' = [alert EXCEPT ![s] = "Error"]
            /\ overlap' = overlap
  /\ UNCHANGED <<storeVars, txn, failed, dirty, before, faults>>
  /\ UNCHANGED outsideRecipes

\* The database starts the next queued transaction: BEGIN, then the
\* handler's callback queues its first statement.
TxBegin(s) ==
  /\ pc[s] = "queued"
  /\ txn = NoTxn
  /\ txn' = [owner |-> s, queue |-> <<FirstStatement(form[s])>>,
             work |-> CurrentTables, rollback |-> FALSE]
  /\ pc' = [pc EXCEPT ![s] = "tx"]
  /\ before' = [before EXCEPT ![s] = CurrentTables]
  /\ dirty' = [dirty EXCEPT ![s] = FALSE]
  /\ UNCHANGED <<storeVars, form, alert, failed, overlap, faults>>
  /\ UNCHANGED outsideRecipes

\* The running transaction executes its next statement and calls the
\* statement's success or error callback.
TxExecuteSql(fail) ==
  /\ txn # NoTxn
  /\ txn.queue # <<>>
  /\ ~txn.rollback
  /\ LET s    == txn.owner
         stmt == Head(txn.queue)
         w    == ExecuteSql(stmt, txn.work)
     IN IF fail
          THEN /\ faults < MaxFaults
               /\ faults' = faults + 1
               /\ failed' = [failed EXCEPT ![s] = TRUE]
               /\ txn' = [txn EXCEPT !.queue = Tail(@),
                                     !.rollback = errorCallback(stmt)]
               /\ UNCHANGED <<form, alert>>
          ELSE /\ txn' = [txn EXCEPT !.queue = Tail(@) \o successCallback(s, stmt, w),
                                     !.work = w]
               /\ form' = IF form[s].op = "save" /\ stmt.sql = "INSERT recipes"
                            THEN [form EXCEPT ![s].recipeId = insertId(w)]
                            ELSE form
               /\ alert' = IF AnnouncesSuccess(s, stmt)
                             THEN [alert EXCEPT ![s] = "Success"]
                             ELSE alert
               /\ UNCHANGED <<failed, faults>>
  /\ UNCHANGED <<storeVars, pc, dirty, before, overlap>>
  /\ UNCHANGED outsideRecipes

\* The queue is empty: COMMIT; or an error was left unhandled: ROLLBACK.
TxEnd ==
  /\ txn # NoTxn
  /\ txn.queue = <<>> \/ txn.rollback
  /\ LET w == IF txn.rollback THEN CurrentTables ELSE txn.work
     IN /\ recipes' = w.recipes
        /\ recipe_ingredients' = w.recipe_ingredients
        /\ seqRecipes' = w.seqRecipes
        /\ seqIngredients' = w.seqIngredients
  /\ dirty' = Dirtied(txn.owner)
  /\ pc' = [pc EXCEPT ![txn.owner] = "done"]
  /\ txn' = NoTxn
  /\ UNCHANGED <<food_items, form, alert, failed, before, overlap, faults>>
  /\ UNCHANGED outsideRecipes

-----------------------------------------------------------------------------
(* Promise-style deletion: two awaited statements with no transaction *)

\* deleteRecipe up to its first await: DELETE FROM recipe_ingredients.
deleteRecipe(s, recipeId, fail) ==
  /\ pc[s] = "idle"
  /\ txn = NoTxn
  /\ form' = [form EXCEPT ![s] = [NoForm EXCEPT !.op = "delete", !.recipeId = recipeId]]
  /\ before' = [before EXCEPT ![s] = CurrentTables]
  /\ IF fail
       THEN /\ faults < MaxFaults
            /\ faults' = faults + 1
            /\ failed' = [failed EXCEPT ![s] = TRUE]
            /\ pc' = [pc EXCEPT ![s] = "done"]
            /\ alert' = [alert EXCEPT ![s] = "Error"]
            /\ dirty' = [dirty EXCEPT ![s] = FALSE]
            /\ UNCHANGED recipe_ingredients
       ELSE /\ recipe_ingredients' =
                 ExecuteSql(DeleteIngredientsStmt(recipeId), CurrentTables).recipe_ingredients
            /\ pc' = [pc EXCEPT ![s] = "deleting"]
            /\ dirty' = [Dirtied(s) EXCEPT ![s] = FALSE]
            /\ UNCHANGED <<faults, failed, alert>>
  /\ UNCHANGED <<food_items, recipes, seqRecipes, seqIngredients, txn, overlap>>
  /\ UNCHANGED outsideRecipes

\* deleteRecipe after the first await: DELETE FROM recipes, then report.
deleteRecipeRow(s, fail) ==
  /\ pc[s] = "deleting"
  /\ txn = NoTxn
  /\ IF fail
       THEN /\ faults < MaxFaults
            /\ faults' = faults + 1
            /\ failed' = [failed EXCEPT ![s] = TRUE]
            /\ alert' = [alert EXCEPT ![s] = "Error"]
            /\ UNCHANGED <<recipes, dirty>>
       ELSE /\ recipes' = ExecuteSql(DeleteRecipeStmt(form[s].recipeId), CurrentTables).recipes
            /\ alert' = [alert EXCEPT ![s] = "Success"]
            /\ dirty' = Dirtied(s)
            /\ UNCHANGED <<faults, failed>>
  /\ pc' = [pc EXCEPT ![s] = "done"]
  /\ UNCHANGED <<food_items, recipe_ingredients, seqRecipes, seqIngredients, txn, form,
                 before, overlap>>
  /\ UNCHANGED outsideRecipes

-----------------------------------------------------------------------------
(* The recipe specification: two screens' worth of operations on a seeded *)
(* store that already holds one recipe.                                    *)

\* No recipe screen has an operation under way.
RecipeScreensIdle ==
  /\ txn = NoTxn
  /\ pc = [s \in Sessions |-> "idle"]
  /\ form = [s \in Sessions |-> NoForm]
  /\ alert = [s \in Sessions |-> "none"]
  /\ failed = [s \in Sessions |-> FALSE]
  /\ dirty = [s \in Sessions |-> FALSE]
  /\ before = [s \in Sessions |-> EmptyTables]
  /\ overlap = [s \in Sessions |-> FALSE]

\* The application has started: the tables exist and the screens are shown.
Started ==
  /\ db = "open" /\ schema = TRUE /\ isReady = TRUE
  /\ handles = {Connection("initDatabase", "App")}
  /\ init = [c \in Callers |-> NotCalled]

\* RecipeDetailScreen before it is opened: recipe is null, ingredients is [].
\* midway records that the recipe row was read between the two statements of a
\* deletion of that recipe.
NoDetail ==
  [pc |-> "closed", recipeId |-> 0, recipe |-> {}, ingredients |-> {}, alert |-> "none",
   midway |-> FALSE]

NoMealLogged == food_logs = {} /\ seqFoodLogs = 0 /\ detail = NoDetail

\* The length of WaterTrackerScreen's chart: Array(7).fill(0).
DaysInWeek == 7

\* The instants of the model, on a device whose time zone is ahead of UTC:
\* for each, the day of new Date().toISOString().split('T')[0], which is the
\* UTC day, and the local calendar day.  The first is the moment the screens
\* are opened; at the second, local midnight has passed and UTC midnight has
\* not, so every day the screens compute is still the same.
Instants ==
  << [utc |-> DaysInWeek, local |-> DaysInWeek],
     [utc |-> DaysInWeek, local |-> DaysInWeek + 1] >>

\* timestamp.split('T')[0] of a timestamp made by toISOString().
UtcDay(timestamp) == Instants[timestamp].utc

\* The local calendar day of a timestamp.
LocalDay(timestamp) == Instants[timestamp].local

\* Array(n).fill(0)
ZeroFill(n) == [i \in 1..n |-> 0]

NoWeeklyCall ==
  [pc |-> "idle", userId |-> 0, dates |-> <<>>, i |-> 0, data |-> <<>>, failed |-> FALSE,
   stale |-> FALSE]

\* useState<number[]>([0, 0, 0, 0, 0, 0, 0]) over an empty table.
NoWaterLogged ==
  /\ water_logs = {} /\ seqWaterLogs = 0
  /\ weeklyData = [data |-> ZeroFill(DaysInWeek), failed |-> FALSE, stale |-> FALSE]
  /\ weeklyCall = NoWeeklyCall

\* AddFoodScreen before a button is pressed.
NoFoodForm == [pc |-> "idle", op |-> "none", name |-> "", text |-> "", alert |-> "none"]

\* The screens outside the recipe, meal and water parts are untouched.
\* A JavaScript number that is a decimal with one fractional digit, or one
\* that lies a few units in the last place beside such a decimal: t is the
\* decimal in tenths and u the offset, in units in the last place, of the
\* number from the double nearest to t/10.
Double(t) == [t |-> t, u |-> 0]

\* useState({totalCalories: 0, totalProtein: 0, totalCarbs: 0, totalFat: 0,
\*           totalFiber: 0, ...})
ZeroSummary ==
  [totalCalories |-> Double(0), totalProtein |-> Double(0), totalCarbs |-> Double(0),
   totalFat |-> Double(0), totalFiber |-> Double(0)]

\* useState<FoodLog[]>([]) and the default summary.
NoHome ==
  [pc |-> "idle", foodLogs |-> <<>>, dailySummary |-> ZeroSummary, date |-> 0,
   pending |-> {}, shownDate |-> 0, detections |-> 0, accepted |-> {}]

\* useState<UserProfile | null>(null)
NoProfile == [pc |-> "idle"]

\* The calls of ProfileScreen.loadUserProfile: from the effect that follows
\* setDb, from the same effect when the screen is mounted once more, and from
\* saveProfile.
Loaders == {"effect", "remount", "saveProfile"}

\* No call of getNutritionData has been made.
NoLookup == [pc |-> "idle"]

OtherScreensIdle ==
  /\ foodForm = NoFoodForm /\ user_food_items = {}
  /\ home = NoHome /\ profile = NoProfile
  /\ clock = 1
  /\ users = {} /\ loads = [l \in Loaders |-> "idle"]
  /\ lookup = NoLookup

RECURSIVE RunAll(_, _)
RunAll(stmts, w) ==
  IF stmts = <<>> THEN w ELSE RunAll(Tail(stmts), ExecuteSql(Head(stmts), w))

\* The recipe the store starts with: a completed save of two ingredients.
InitialIngredients == <<[food_id |-> 3, quantity |-> 1], [food_id |-> 4, quantity |-> 1]>>

InitialTables ==
  LET w == ExecuteSql(InsertRecipeStmt("Thali", calculateTotalCalories(InitialIngredients), 1),
                      EmptyTables)
  IN RunAll(IngredientInserts(insertId(w), InitialIngredients), w)

Init ==
  /\ food_items = SeededCatalogue
  /\ recipes = InitialTables.recipes
  /\ recipe_ingredients = InitialTables.recipe_ingredients
  /\ seqRecipes = InitialTables.seqRecipes
  /\ seqIngredients = InitialTables.seqIngredients
  /\ RecipeScreensIdle
  /\ Started
  /\ NoMealLogged /\ NoWaterLogged /\ OtherScreensIdle
  /\ faults = 0

RecipeIds == {r.id : r \in recipes}

Next ==
  \/ \E s \in Sessions, name \in Names, servings \in ServingsTexts,
        ingredients \in IngredientLists :
       saveRecipe(s, name, servings, ingredients)
  \/ \E s \in Sessions, recipeId \in RecipeIds, name \in Names, servings \in ServingsTexts,
        ingredients \in IngredientLists :
       updateRecipe(s, recipeId, name, servings, ingredients)
  \/ \E s \in Sessions : TxBegin(s)
  \/ \E fail \in BOOLEAN : TxExecuteSql(fail)
  \/ TxEnd
  \/ \E s \in Sessions, recipeId \in RecipeIds, fail \in BOOLEAN :
       deleteRecipe(s, recipeId, fail)
  \/ \E s \in Sessions, fail \in BOOLEAN : deleteRecipeRow(s, fail)

Spec == Init /\ [][Next]_vars

-----------------------------------------------------------------------------
(* initDatabase and populateInitialFoodData, one await at a time *)

\* CREATE TABLE IF NOT EXISTS: an existing table keeps its rows.
CreateTableIfNotExists(table) == table

\* SELECT COUNT(*) as count FROM food_items
CountFoodItems == SumSeq([k \in RefIds |-> food_items[k]])

\* A guard that seeds whatever the count is.
NeedsSeedingAlways(count) == count >= 0

\* if (result.count === 0) await populateInitialFoodData();
NeedsSeeding(count) == count = 0

\* Some earlier call has returned with none of its statements failed.
InitCompleted == \E d \in Callers : init[d].pc \in {"returned", "done"} /\ ~init[d].failed

\* A storage failure is injected into the step of caller c.
InitFault(c) ==
  /\ faults < MaxFaults
  /\ faults' = faults + 1
  /\ init' = [init EXCEPT ![c].pc = "returned", ![c].failed = TRUE]

\* A component mounts and its effect calls initDatabase, which awaits
\* openDatabaseAsync.  App mounts first; it renders the screens, and so
\* mounts ProfileScreen and RecipesScreen, only once isReady is set.
initDatabase(c) ==
  /\ init[c].pc = "unmounted"
  /\ c = "App" \/ isReady
  /\ init' = [init EXCEPT ![c] = InitCall("open", 0, FALSE, InitCompleted)]
  /\ UNCHANGED <<storeVars, outsideStart, db, schema, isReady, handles, faults>>

\* db = await SQLite.openDatabaseAsync(...)
initOpen(c, fail) ==
  /\ init[c].pc = "open"
  /\ IF fail
       THEN InitFault(c) /\ UNCHANGED <<db, handles>>
       ELSE /\ db' = "open"
            /\ handles' = handles \cup {Connection("initDatabase", c)}
            /\ init' = [init EXCEPT ![c].pc = "create"]
            /\ UNCHANGED faults
  /\ UNCHANGED <<storeVars, outsideStart, schema, isReady>>

\* await db.execAsync(`CREATE TABLE IF NOT EXISTS ...`)
initCreateTables(c, fail) ==
  /\ init[c].pc = "create"
  /\ IF fail
       THEN InitFault(c) /\ UNCHANGED <<schema, food_items>>
       ELSE /\ schema' = TRUE
            /\ food_items' = CreateTableIfNotExists(food_items)
            /\ init' = [init EXCEPT ![c].pc = "count"]
            /\ UNCHANGED faults
  /\ UNCHANGED <<recipes, recipe_ingredients, seqRecipes, seqIngredients, outsideStart, db,
                 isReady, handles>>

\* const result = await db.getFirstAsync('SELECT COUNT(*) ...'); if (count === 0) ...
initCount(c, fail) ==
  /\ init[c].pc = "count"
  /\ IF fail
       THEN InitFault(c)
       ELSE /\ init' = IF NeedsSeeding(CountFoodItems)
                         THEN [init EXCEPT ![c].pc = "populate", ![c].item = 1]
                         ELSE [init EXCEPT ![c].pc = "returned"]
            /\ UNCHANGED faults
  /\ UNCHANGED <<storeVars, outsideStart, db, schema, isReady, handles>>

\* for (const item of foodItems) await db.runAsync('INSERT INTO food_items ...');
\* a failed insert leaves the loop through populateInitialFoodData's own catch.
populateInitialFoodData(c, fail) ==
  /\ init[c].pc = "populate"
  /\ IF fail
       THEN InitFault(c) /\ UNCHANGED food_items
       ELSE /\ food_items' = [food_items EXCEPT ![init[c].item] = @ + 1]
            /\ init' = IF init[c].item = Len(foodItems)
                         THEN [init EXCEPT ![c].pc = "returned"]
                         ELSE [init EXCEPT ![c].item = @ + 1]
            /\ UNCHANGED faults
  /\ UNCHANGED <<recipes, recipe_ingredients, seqRecipes, seqIngredients, outsideStart, db,
                 schema, isReady, handles>>

\* How initDatabase ends for its caller: both try blocks catch and log, so the
\* promise resolves whether or not a statement failed.
initDatabaseOutcome(call) == "resolved"

\* The caller's continuation of `await initDatabase()`: App sets isReady in
\* its try block; the screens go on to their own set-up, which opens a
\* connection for the screen: const database = await
\* SQLite.openDatabaseAsync('indiancalorietracker.db'); setDb(database).
setupDatabase(c) ==
  /\ init[c].pc = "returned"
  /\ init' = [init EXCEPT ![c].pc = "done"]
  /\ isReady' = IF c = "App" /\ initDatabaseOutcome(init[c]) = "resolved" THEN TRUE
                ELSE isReady
  /\ handles' = IF c = "App" THEN handles ELSE handles \cup {Connection("setupDatabase", c)}
  /\ UNCHANGED <<storeVars, outsideStart, db, schema, faults>>

\* The modules that open a connection when they are first evaluated:
\* const db = SQLite.openDatabaseSync('indiancalorietracker.db') at top level.
ScreenModules ==
  {"CreateRecipeScreen", "EditRecipeScreen", "RecipeDetailScreen", "WaterTrackerScreen"}

\* The first import of such a module.
importScreen(m) ==
  /\ Connection("module", m) \notin handles
  /\ handles' = handles \cup {Connection("module", m)}
  /\ UNCHANGED <<storeVars, outsideStart, db, schema, init, isReady, faults>>

\* A fresh installation: no database file, nothing mounted.
InitStart ==
  /\ food_items = [k \in RefIds |-> 0]
  /\ recipes = {} /\ recipe_ingredients = {} /\ seqRecipes = 0 /\ seqIngredients = 0
  /\ RecipeScreensIdle
  /\ db = "undefined" /\ schema = FALSE /\ isReady = FALSE /\ handles = {}
  /\ init = [c \in Callers |-> NotCalled]
  /\ NoMealLogged /\ NoWaterLogged /\ OtherScreensIdle
  /\ faults = 0

NextStart ==
  \/ \E c \in Callers : initDatabase(c)
  \/ \E c \in Callers, fail \in BOOLEAN : initOpen(c, fail)
  \/ \E c \in Callers, fail \in BOOLEAN : initCreateTables(c, fail)
  \/ \E c \in Callers, fail \in BOOLEAN : initCount(c, fail)
  \/ \E c \in Callers, fail \in BOOLEAN : populateInitialFoodData(c, fail)
  \/ \E c \in Callers : setupDatabase(c)

SpecStart == InitStart /\ [][NextStart]_vars

\* Application start together with the evaluation of the screens' modules.
NextHandles ==
  \/ NextStart
  \/ \E m \in ScreenModules : importScreen(m)

SpecHandles == InitStart /\ [][NextHandles]_vars

-----------------------------------------------------------------------------
(* Reads of the recipe tables *)

\* getRecipeById / loadRecipeDetails: SELECT * FROM recipes WHERE id = ?
getRecipeById(recipeId) == {r \in recipes : r.id = recipeId}

\* loadRecipeDetails: rows.length > 0 ? setRecipe(...) : Alert 'Recipe not found'
RecipeDetailsAlert(rows) == IF rows # {} THEN "none" ELSE "Recipe not found"

\* getRecipeIngredients / loadRecipeIngredients: the ingredient rows of a recipe
\* joined with their catalogue rows.
getRecipeIngredients(recipeId) ==
  {[id |-> ri.id, recipe_id |-> ri.recipe_id, food_id |-> ri.food_id,
    quantity |-> ri.quantity, name |-> f.name, calories |-> f.calories,
    protein |-> f.protein, carbs |-> f.carbs, fat |-> f.fat, fiber |-> f.fiber] :
     <<ri, f>> \in {p \in recipe_ingredients \X {foodItems[k] : k \in RefIds} :
                      /\ p[1].recipe_id = recipeId
                      /\ p[2] \in JoinFood(p[1].food_id)}}

-----------------------------------------------------------------------------
(* The meal log: food_logs, addFoodLog and RecipeDetailScreen *)

MaxFoodLogs == 3
MaxServings == 3

\* Day keys stand for the YYYY-MM-DD strings; the current day closes the week.
Today == DaysInWeek
Yesterday == Today - 1

\* CREATE TABLE IF NOT EXISTS food_logs (...): the columns of the table.
food_logs_columns == {"id", "user_id", "food_id", "quantity", "meal_type", "date", "timestamp"}

\* The column list of addFoodLog's INSERT.
addFoodLogColumns == {"user_id", "food_id", "quantity", "meal_type", "date", "timestamp"}

\* The column list of logRecipeAsMeal's INSERT.
logRecipeAsMealColumns ==
  {"user_id", "food_id", "name", "calories", "protein", "carbs", "fat", "fiber", "quantity",
   "meal_type", "serving_size", "timestamp", "date"}

\* SQLite prepares an INSERT only if the table has every column it names;
\* otherwise the statement fails with "table has no column named ...".
Prepares(columns, tableColumns) == columns \subseteq tableColumns

\* The food_id logRecipeAsMeal gives a logged recipe.
RecipeFoodId == -1

\* The arguments the callers of addFoodLog choose among.
FoodLogInputs ==
  {[user_id |-> 1, food_id |-> 1, quantity |-> 1, meal_type |-> "Breakfast", date |-> Today],
   [user_id |-> 1, food_id |-> 2, quantity |-> 2, meal_type |-> "Dinner", date |-> Yesterday]}

\* Math.round(n / d) for n >= 0, d > 0: halves round up.
MathRound(n, d) == (2 * n + d) \div (2 * d)

\* calculatePerServing(total), total being num/den:
\* if (!recipe || recipe.servings <= 0) return 0; return Math.round(total / servings)
calculatePerServing(recipe, num, den) ==
  IF recipe = {} \/ \E r \in recipe : r.servings <= 0 THEN 0
  ELSE LET r == CHOOSE x \in recipe : TRUE IN MathRound(num, den * r.servings)

RECURSIVE SumNutrient(_, _)
SumNutrient(rows, nutrient) ==
  IF rows = {} THEN 0
  ELSE LET r == CHOOSE x \in rows : TRUE
       IN r[nutrient] * r.quantity + SumNutrient(rows \ {r}, nutrient)

\* calculateTotalNutrition: ingredients.reduce(sum + item.<nutrient> * item.quantity, 0),
\* in tenths of a gram.
calculateTotalNutrition(ingredients) ==
  [n \in {"protein", "carbs", "fat", "fiber"} |-> SumNutrient(ingredients, n)]

\* The values logRecipeAsMeal binds to its INSERT (the timestamp apart):
\* const date = timestamp.split('T')[0].
RecipeLogValues(recipe, ingredients) ==
  LET r == CHOOSE x \in recipe : TRUE
      totals == calculateTotalNutrition(ingredients)
  IN [user_id |-> 1, food_id |-> RecipeFoodId, name |-> r.name,
      calories |-> calculatePerServing(recipe, r.total_calories, 1),
      protein |-> calculatePerServing(recipe, totals["protein"], 10),
      carbs |-> calculatePerServing(recipe, totals["carbs"], 10),
      fat |-> calculatePerServing(recipe, totals["fat"], 10),
      fiber |-> calculatePerServing(recipe, totals["fiber"], 10),
      quantity |-> 1, meal_type |-> "Meal", serving_size |-> "1 serving",
      date |-> UtcDay(clock)]

\* The row an accepted INSERT INTO food_logs adds; its timestamp is new
\* Date().toISOString() of the moment of the call.
FoodLogRow(values) == [k \in DOMAIN values \cup {"id", "timestamp"} |->
                         IF k = "id" THEN seqFoodLogs + 1
                         ELSE IF k = "timestamp" THEN clock
                         ELSE values[k]]

outsideMeal == <<storeVars, recipeVars, initVars, waterVars, otherVars>>

\* addFoodLog(userId, foodId, quantity, mealType, date): one awaited INSERT;
\* the catch returns -1.
addFoodLog(values, fail) ==
  /\ txn = NoTxn
  /\ seqFoodLogs < MaxFoodLogs
  /\ IF fail \/ ~Prepares(addFoodLogColumns, food_logs_columns)
       THEN /\ faults < MaxFaults
            /\ faults' = faults + 1
            /\ UNCHANGED <<food_logs, seqFoodLogs>>
       ELSE /\ food_logs' = food_logs \cup {FoodLogRow(values)}
            /\ seqFoodLogs' = seqFoodLogs + 1
            /\ UNCHANGED faults
  /\ UNCHANGED <<detail, outsideMeal>>

\* A deleteRecipe of recipeId has run its first DELETE and not yet its second.
DeletionUnderWay(recipeId) ==
  \E s \in Sessions : pc[s] = "deleting" /\ form[s].recipeId = recipeId

\* navigation.navigate('RecipeDetail', {recipeId}): the screen mounts and its
\* effect queues loadRecipeDetails and loadRecipeIngredients.
openRecipeDetail(recipeId) ==
  /\ detail.pc = "closed"
  /\ detail' = [detail EXCEPT !.pc = "mounted", !.recipeId = recipeId]
  /\ UNCHANGED <<food_logs, seqFoodLogs, faults, outsideMeal>>

\* loadRecipeDetails: SELECT * FROM recipes WHERE id = ?; setRecipe or alert.
loadRecipeDetails(fail) ==
  /\ detail.pc = "mounted"
  /\ txn = NoTxn
  /\ IF fail
       THEN /\ faults < MaxFaults
            /\ faults' = faults + 1
            /\ detail' = [detail EXCEPT !.pc = "details"]
       ELSE /\ detail' = [detail EXCEPT !.pc = "details",
                                        !.recipe = getRecipeById(detail.recipeId),
                                        !.alert = RecipeDetailsAlert(getRecipeById(detail.recipeId)),
                                        !.midway = /\ getRecipeById(detail.recipeId) # {}
                                                   /\ DeletionUnderWay(detail.recipeId)]
            /\ UNCHANGED faults
  /\ UNCHANGED <<food_logs, seqFoodLogs, outsideMeal>>

\* loadRecipeIngredients: the joined ingredient rows; setIngredients.
loadRecipeIngredients(fail) ==
  /\ detail.pc = "details"
  /\ txn = NoTxn
  /\ IF fail
       THEN /\ faults < MaxFaults
            /\ faults' = faults + 1
            /\ detail' = [detail EXCEPT !.pc = "shown"]
       ELSE /\ detail' = [detail EXCEPT !.pc = "shown",
                                        !.ingredients = getRecipeIngredients(detail.recipeId)]
            /\ UNCHANGED faults
  /\ UNCHANGED <<food_logs, seqFoodLogs, outsideMeal>>

\* logRecipeAsMeal: if (!recipe) return; one transaction with one INSERT INTO
\* food_logs.  The success callback alerts; the error callback logs and
\* returns false, so the transaction commits with nothing written.
logRecipeAsMeal ==
  /\ detail.pc = "shown"
  /\ detail.recipe # {}
  /\ txn = NoTxn
  /\ IF Prepares(logRecipeAsMealColumns, food_logs_columns)
       THEN /\ food_logs' = food_logs
                              \cup {FoodLogRow(RecipeLogValues(detail.recipe, detail.ingredients))}
            /\ seqFoodLogs' = seqFoodLogs + 1
            /\ detail' = [detail EXCEPT !.pc = "logged", !.alert = "Success"]
       ELSE /\ detail' = [detail EXCEPT !.pc = "logged"]
            /\ UNCHANGED <<food_logs, seqFoodLogs>>
  /\ UNCHANGED <<faults, outsideMeal>>

\* A started application whose store holds one saved recipe.
InitMeal ==
  /\ \E ingredients \in IngredientLists \ {<<>>}, servings \in 1..MaxServings :
       LET w == ExecuteSql(InsertRecipeStmt("Thali", calculateTotalCalories(ingredients),
                                            servings), EmptyTables)
           saved == RunAll(IngredientInserts(insertId(w), ingredients), w)
       IN /\ recipes = saved.recipes
          /\ recipe_ingredients = saved.recipe_ingredients
          /\ seqRecipes = saved.seqRecipes
          /\ seqIngredients = saved.seqIngredients
  /\ food_items = SeededCatalogue
  /\ RecipeScreensIdle
  /\ Started
  /\ NoMealLogged /\ NoWaterLogged /\ OtherScreensIdle
  /\ faults = 0

NextMeal ==
  \/ \E values \in FoodLogInputs, fail \in BOOLEAN : addFoodLog(values, fail)
  \/ \E recipeId \in RecipeIds \cup {seqRecipes + 1} : openRecipeDetail(recipeId)
  \/ \E fail \in BOOLEAN : loadRecipeDetails(fail)
  \/ \E fail \in BOOLEAN : loadRecipeIngredients(fail)
  \/ logRecipeAsMeal

SpecMeal == InitMeal /\ [][NextMeal]_vars

-----------------------------------------------------------------------------
(* Reads beside writes: the detail screen opened while the recipe list     *)
(* deletes or the edit screen updates.                                     *)

NextRead ==
  \/ \E s \in Sessions, recipeId \in RecipeIds, fail \in BOOLEAN :
       deleteRecipe(s, recipeId, fail)
  \/ \E s \in Sessions, fail \in BOOLEAN : deleteRecipeRow(s, fail)
  \/ \E s \in Sessions, recipeId \in RecipeIds, ingredients \in IngredientLists :
       updateRecipe(s, recipeId, "Khichdi", "2", ingredients)
  \/ \E s \in Sessions : TxBegin(s)
  \/ \E fail \in BOOLEAN : TxExecuteSql(fail)
  \/ TxEnd
  \/ \E recipeId \in RecipeIds : openRecipeDetail(recipeId)
  \/ \E fail \in BOOLEAN : loadRecipeDetails(fail)
  \/ \E fail \in BOOLEAN : loadRecipeIngredients(fail)

SpecRead == Init /\ [][NextRead]_vars

-----------------------------------------------------------------------------
(* AddFoodScreen: handleCreateFood and handleLogFood *)

\* What the database module exports; AddFoodScreen imports addFoodItem and
\* logFood from it.
DatabaseExports ==
  {"initDatabase", "getAllFoodItems", "addFoodLog", "getFoodLogsByDate", "deleteFoodLog",
   "getFoodItemById", "searchFoodItems", "getUserProfile", "updateUserProfile",
   "createDefaultUserProfile", "addWaterLog", "getWaterLogsByDate", "deleteWaterLog",
   "getWeeklyWaterData", "addRecipe", "addRecipeIngredient", "getAllRecipes", "getRecipeById",
   "getRecipeIngredients", "deleteRecipe"}

\* Calling an import the module does not export throws a TypeError.
Callable(fn) == fn \in DatabaseExports

FoodNames == {"", " ", "Poha"}
CaloriesTexts == {"", "-5", "0", "250"}
QuantityTexts == {"", "0", "2"}

\* parseFloat on the whole-number texts the forms are given.
parseFloat(text) == parseInt(text)

\* if (isNaN(caloriesNum) || caloriesNum <= 0)
CaloriesInvalid(caloriesNum) == caloriesNum.nan \/ caloriesNum.value <= 0

outsideFood == <<storeVars, recipeVars, initVars, mealVars, waterVars, homeVars, clock,
                 userVars, lookup>>

Submitted(op, name, text, pcv, al) ==
  [pc |-> pcv, op |-> op, name |-> name, text |-> text, alert |-> al]

\* handleCreateFood: validate the name and the calories, then await
\* addFoodItem(...); whatever is thrown lands in the catch.
handleCreateFood(name, calories) ==
  /\ foodForm.pc = "idle"
  /\ IF trim(name) = "" \/ CaloriesInvalid(parseInt(calories))
       THEN /\ foodForm' = Submitted("create", name, calories, "rejected", "Error")
            /\ UNCHANGED user_food_items
       ELSE IF ~Callable("addFoodItem")
         THEN /\ foodForm' = Submitted("create", name, calories, "failed", "Error")
              /\ UNCHANGED user_food_items
         ELSE /\ foodForm' = Submitted("create", name, calories, "created", "Success")
              /\ user_food_items' = user_food_items \cup
                    {[id |-> Len(foodItems) + Cardinality(user_food_items) + 1,
                      name |-> name, calories |-> parseInt(calories).value]}
  /\ UNCHANGED <<faults, outsideFood>>

\* handleLogFood for the food item the screen was opened with: validate the
\* quantity, then await logFood(...).
handleLogFood(quantity) ==
  /\ foodForm.pc = "idle"
  /\ IF parseFloat(quantity).nan \/ parseFloat(quantity).value <= 0
       THEN foodForm' = Submitted("log", "", quantity, "rejected", "Error")
       ELSE IF ~Callable("logFood")
         THEN foodForm' = Submitted("log", "", quantity, "failed", "Error")
         ELSE foodForm' = Submitted("log", "", quantity, "logged", "Success")
  /\ UNCHANGED <<user_food_items, faults, outsideFood>>

\* The screen is opened again: its state starts afresh.
openAddFood ==
  /\ foodForm.pc # "idle"
  /\ foodForm' = NoFoodForm
  /\ UNCHANGED <<user_food_items, faults, outsideFood>>

\* A started application with the seeded catalogue and no log.
InitFood ==
  /\ food_items = SeededCatalogue
  /\ recipes = {} /\ recipe_ingredients = {} /\ seqRecipes = 0 /\ seqIngredients = 0
  /\ RecipeScreensIdle
  /\ Started
  /\ NoMealLogged /\ NoWaterLogged /\ OtherScreensIdle
  /\ faults = 0

NextFood ==
  \/ \E name \in FoodNames, calories \in CaloriesTexts : handleCreateFood(name, calories)
  \/ \E quantity \in QuantityTexts : handleLogFood(quantity)
  \/ openAddFood
  \/ \E values \in FoodLogInputs, fail \in BOOLEAN : addFoodLog(values, fail)

SpecFood == InitFood /\ [][NextFood]_vars

-----------------------------------------------------------------------------
(* Water tracking: water_logs, the database module's functions and        *)
(* WaterTrackerScreen                                                      *)

MaxWaterLogs == 2

\* The arguments the callers of addWaterLog(userId, amountMl, date) choose among.
WaterInputs ==
  {[user_id |-> 1, amount_ml |-> 300, date |-> Yesterday],
   [user_id |-> 2, amount_ml |-> 300, date |-> Today]}

\* The quick-add button pressed on WaterTrackerScreen.
QuickAddMl == {200}

UserIds == {1, 2}

\* The date lists handed to getWeeklyWaterData: empty, repeated and unordered.
DateLists == {<<>>, <<Today>>, <<Yesterday, Today>>, <<Today, Yesterday, Today>>}

\* loadWeeklyData's dates: for (i = 6; i >= 0; i--) dates.push(today - i).
WeekDates == [k \in 1..DaysInWeek |-> Today - (DaysInWeek - k)]

RECURSIVE SumAmountMl(_)
SumAmountMl(rows) ==
  IF rows = {} THEN 0
  ELSE LET r == CHOOSE x \in rows : TRUE IN r.amount_ml + SumAmountMl(rows \ {r})

\* SELECT SUM(amount_ml) as total: NULL over no rows.
SqlSum(rows) == [null |-> rows = {}, total |-> SumAmountMl(rows)]

\* A query that forgets the user.
SelectUserDayTotalAnyUser(logs, userId, date) == SqlSum({r \in logs : r.date = date})

\* SELECT SUM(amount_ml) as total FROM water_logs WHERE user_id = ? AND date = ?
SelectUserDayTotal(logs, userId, date) ==
  SqlSum({r \in logs : r.user_id = userId /\ r.date = date})

\* SELECT SUM(amount_ml) as total FROM water_logs WHERE date = ?
SelectDayTotal(logs, date) == SqlSum({r \in logs : r.date = date})

\* if (result && result.total) data[i] = result.total; the entry is 0 otherwise.
WeeklyEntry(result, old) == IF ~result.null /\ result.total # 0 THEN result.total ELSE old

outsideWater == <<storeVars, recipeVars, initVars, mealVars, otherVars>>

\* The table has changed: what was read from it earlier is out of date.
Outdated(w) == [w EXCEPT !.stale = TRUE]

\* The storage failures a transaction of DaysInWeek queries may meet: of its
\* first query, of its last one (whose success callback calls setWeeklyData),
\* or of both.
FaultSets == {F \in SUBSET {1, DaysInWeek} : faults + Cardinality(F) <= MaxFaults}

\* loadWeeklyData: one transaction of DaysInWeek queries filling data[index];
\* a failed query leaves its entry 0 (the error callback returns false), and
\* setWeeklyData(data) runs in the success callback of the last query only.
LoadWeekly(logs, F, shown) ==
  IF DaysInWeek \in F THEN shown
  ELSE [data |-> [k \in 1..DaysInWeek |->
                    IF k \in F THEN 0 ELSE WeeklyEntry(SelectDayTotal(logs, WeekDates[k]), 0)],
        failed |-> F # {}, stale |-> FALSE]

\* WaterTrackerScreen mounts or is refreshed: loadWeeklyData().
loadWeeklyData(F) ==
  /\ txn = NoTxn
  /\ weeklyData' = LoadWeekly(water_logs, F, weeklyData)
  /\ faults' = faults + Cardinality(F)
  /\ UNCHANGED <<water_logs, seqWaterLogs, weeklyCall, outsideWater>>

WaterLogRow(values) ==
  [id |-> seqWaterLogs + 1, user_id |-> values.user_id, amount_ml |-> values.amount_ml,
   date |-> values.date, timestamp |-> clock]

\* A call that is not idle has read, or is reading, the table as it was.
CallOutdated == IF weeklyCall.pc = "idle" THEN weeklyCall ELSE Outdated(weeklyCall)

\* database.addWaterLog(userId, amountMl, date): one awaited INSERT.
addWaterLog(values, fail) ==
  /\ txn = NoTxn
  /\ seqWaterLogs < MaxWaterLogs
  /\ IF fail
       THEN /\ faults < MaxFaults
            /\ faults' = faults + 1
            /\ UNCHANGED <<water_logs, seqWaterLogs, weeklyData, weeklyCall>>
       ELSE /\ water_logs' = water_logs \cup {WaterLogRow(values)}
            /\ seqWaterLogs' = seqWaterLogs + 1
            /\ weeklyData' = Outdated(weeklyData)
            /\ weeklyCall' = CallOutdated
            /\ UNCHANGED faults
  /\ UNCHANGED outsideWater

\* database.deleteWaterLog(logId): one awaited DELETE.
deleteWaterLog(logId, fail) ==
  /\ txn = NoTxn
  /\ IF fail
       THEN /\ faults < MaxFaults
            /\ faults' = faults + 1
            /\ UNCHANGED <<water_logs, weeklyData, weeklyCall>>
       ELSE /\ water_logs' = {r \in water_logs : r.id # logId}
            /\ weeklyData' = IF water_logs' = water_logs THEN weeklyData
                             ELSE Outdated(weeklyData)
            /\ weeklyCall' = IF water_logs' = water_logs THEN weeklyCall ELSE CallOutdated
            /\ UNCHANGED faults
  /\ UNCHANGED <<seqWaterLogs, outsideWater>>

\* WaterTrackerScreen.addWaterLog(amount): INSERT for user 1 and today; its
\* success callback reloads the day's logs and the weekly data.
WaterTracker_addWaterLog(amount, fail, F) ==
  /\ txn = NoTxn
  /\ seqWaterLogs < MaxWaterLogs
  /\ IF fail
       THEN /\ F = {} /\ faults < MaxFaults
            /\ faults' = faults + 1
            /\ UNCHANGED <<water_logs, seqWaterLogs, weeklyData, weeklyCall>>
       ELSE /\ water_logs' = water_logs \cup
                 {WaterLogRow([user_id |-> 1, amount_ml |-> amount, date |-> Today])}
            /\ seqWaterLogs' = seqWaterLogs + 1
            /\ weeklyData' = LoadWeekly(water_logs', F, Outdated(weeklyData))
            /\ weeklyCall' = CallOutdated
            /\ faults' = faults + Cardinality(F)
  /\ UNCHANGED outsideWater

\* WaterTrackerScreen.deleteWaterLog(id) of a log the screen lists; its
\* success callback reloads as well.
WaterTracker_deleteWaterLog(id, fail, F) ==
  /\ txn = NoTxn
  /\ \E r \in water_logs : r.id = id /\ r.date = Today
  /\ IF fail
       THEN /\ F = {} /\ faults < MaxFaults
            /\ faults' = faults + 1
            /\ UNCHANGED <<water_logs, weeklyData, weeklyCall>>
       ELSE /\ water_logs' = {r \in water_logs : r.id # id}
            /\ weeklyData' = LoadWeekly(water_logs', F, Outdated(weeklyData))
            /\ weeklyCall' = CallOutdated
            /\ faults' = faults + Cardinality(F)
  /\ UNCHANGED <<seqWaterLogs, outsideWater>>

\* getWeeklyWaterData(userId, dates) up to its first await:
\* data = Array(dates.length).fill(0); with no date the loop does not run.
getWeeklyWaterData(userId, dates) ==
  /\ weeklyCall.pc = "idle"
  /\ weeklyCall' = [pc |-> IF dates = <<>> THEN "done" ELSE "query", userId |-> userId,
                    dates |-> dates, i |-> 1, data |-> ZeroFill(Len(dates)),
                    failed |-> FALSE, stale |-> FALSE]
  /\ UNCHANGED <<water_logs, seqWaterLogs, weeklyData, faults, outsideWater>>

\* One round of the loop: await db.getFirstAsync(...dates[i]); store the total.
\* A failed query lands in the catch: return Array(dates.length).fill(0).
getWeeklyWaterDataQuery(fail) ==
  /\ weeklyCall.pc = "query"
  /\ txn = NoTxn
  /\ IF fail
       THEN /\ faults < MaxFaults
            /\ faults' = faults + 1
            /\ weeklyCall' = [weeklyCall EXCEPT !.pc = "done", !.failed = TRUE,
                                                !.data = ZeroFill(Len(weeklyCall.dates))]
       ELSE /\ weeklyCall' =
                 [weeklyCall EXCEPT
                    !.data[weeklyCall.i] =
                       WeeklyEntry(SelectUserDayTotal(water_logs, weeklyCall.userId,
                                                      weeklyCall.dates[weeklyCall.i]), @),
                    !.i = @ + 1,
                    !.pc = IF weeklyCall.i = Len(weeklyCall.dates) THEN "done" ELSE "query"]
            /\ UNCHANGED faults
  /\ UNCHANGED <<water_logs, seqWaterLogs, weeklyData, outsideWater>>

\* The caller has taken the returned array; the next call may start.
getWeeklyWaterDataReturn ==
  /\ weeklyCall.pc = "done"
  /\ weeklyCall' = NoWeeklyCall
  /\ UNCHANGED <<water_logs, seqWaterLogs, weeklyData, faults, outsideWater>>

\* A started application with an empty water log.
InitWater ==
  /\ food_items = SeededCatalogue
  /\ recipes = {} /\ recipe_ingredients = {} /\ seqRecipes = 0 /\ seqIngredients = 0
  /\ RecipeScreensIdle
  /\ Started
  /\ NoMealLogged /\ NoWaterLogged /\ OtherScreensIdle
  /\ faults = 0

NextWater ==
  \/ \E values \in WaterInputs, fail \in BOOLEAN : addWaterLog(values, fail)
  \/ \E logId \in 1..seqWaterLogs, fail \in BOOLEAN : deleteWaterLog(logId, fail)
  \/ \E amount \in QuickAddMl, fail \in BOOLEAN, F \in FaultSets :
       WaterTracker_addWaterLog(amount, fail, F)
  \/ \E id \in 1..seqWaterLogs, fail \in BOOLEAN, F \in FaultSets :
       WaterTracker_deleteWaterLog(id, fail, F)
  \/ \E F \in FaultSets : loadWeeklyData(F)
  \/ \E userId \in UserIds, dates \in DateLists : getWeeklyWaterData(userId, dates)
  \/ \E fail \in BOOLEAN : getWeeklyWaterDataQuery(fail)
  \/ getWeeklyWaterDataReturn

SpecWater == InitWater /\ [][NextWater]_vars

-----------------------------------------------------------------------------
(* The logging functions of the database module, called with any argument *)

\* Arguments with a quantity that is not positive.
NonPositiveFoodLogs ==
  {[user_id |-> 1, food_id |-> 1, quantity |-> 0, meal_type |-> "Lunch", date |-> Today],
   [user_id |-> 1, food_id |-> 2, quantity |-> -1, meal_type |-> "Snack", date |-> Today]}

\* Arguments with an amount that is not positive.
NonPositiveWaterLogs ==
  {[user_id |-> 1, amount_ml |-> 0, date |-> Today],
   [user_id |-> 1, amount_ml |-> -200, date |-> Today]}

NextLogs ==
  \/ \E values \in FoodLogInputs \cup NonPositiveFoodLogs, fail \in BOOLEAN :
       addFoodLog(values, fail)
  \/ \E values \in WaterInputs \cup NonPositiveWaterLogs, fail \in BOOLEAN :
       addWaterLog(values, fail)
  \/ \E logId \in 1..seqWaterLogs, fail \in BOOLEAN : deleteWaterLog(logId, fail)

SpecLogs == InitFood /\ [][NextLogs]_vars

-----------------------------------------------------------------------------
(* The recipe functions of the database module: addRecipe and              *)
(* addRecipeIngredient, one awaited INSERT each                            *)

MaxRecipes == 2

\* The arguments addRecipe(name, description, instructions, totalCalories,
\* servings) is called with.
RecipeInputs ==
  {[name |-> "Khichdi", totalCalories |-> 260, servings |-> 2],
   [name |-> "", totalCalories |-> 0, servings |-> 0]}

\* The ingredients addRecipeIngredient(recipeId, foodId, quantity) is called with.
IngredientInputs == Items \cup {[food_id |-> 1, quantity |-> 0]}

\* addRecipe: INSERT INTO recipes ...; return result.lastInsertRowId, -1 on error.
addRecipe(values, fail) ==
  /\ txn = NoTxn
  /\ seqRecipes < MaxRecipes
  /\ IF fail
       THEN /\ faults < MaxFaults
            /\ faults' = faults + 1
            /\ UNCHANGED <<recipes, seqRecipes>>
       ELSE LET w == ExecuteSql(InsertRecipeStmt(values.name, values.totalCalories,
                                                 values.servings), CurrentTables)
            IN /\ recipes' = w.recipes
               /\ seqRecipes' = w.seqRecipes
               /\ UNCHANGED faults
  /\ UNCHANGED <<food_items, recipe_ingredients, seqIngredients, recipeVars, outsideRecipes>>

\* addRecipeIngredient: INSERT INTO recipe_ingredients ...; -1 on error.
addRecipeIngredient(recipeId, it, fail) ==
  /\ txn = NoTxn
  /\ seqIngredients < MaxIngredients
  /\ IF fail
       THEN /\ faults < MaxFaults
            /\ faults' = faults + 1
            /\ UNCHANGED <<recipe_ingredients, seqIngredients>>
       ELSE LET w == ExecuteSql(InsertIngredientStmt(recipeId, it), CurrentTables)
            IN /\ recipe_ingredients' = w.recipe_ingredients
               /\ seqIngredients' = w.seqIngredients
               /\ UNCHANGED faults
  /\ UNCHANGED <<food_items, recipes, seqRecipes, recipeVars, outsideRecipes>>

NextRecipeApi ==
  \/ \E values \in RecipeInputs, fail \in BOOLEAN : addRecipe(values, fail)
  \/ \E recipeId \in RecipeIds, it \in IngredientInputs, fail \in BOOLEAN :
       addRecipeIngredient(recipeId, it, fail)
  \/ \E s \in Sessions, recipeId \in RecipeIds, fail \in BOOLEAN :
       deleteRecipe(s, recipeId, fail)
  \/ \E s \in Sessions, fail \in BOOLEAN : deleteRecipeRow(s, fail)

SpecRecipeApi == InitFood /\ [][NextRecipeApi]_vars

-----------------------------------------------------------------------------
(* FoodDetectionService: getNutritionData and its local fallback.  A       *)
(* FoodData holds a name, calories (whole) and protein, carbs, fat and    *)
(* fiber (in tenths); serving_size is left out.  null is the record Null.  *)

\* The rows of foodDatabase for bread, chapati and paneer.
foodDatabase ==
  [n \in {"bread", "chapati", "paneer"} |->
     CASE n = "bread"   -> [calories |-> 75,  protein |-> 30,  carbs |-> 130, fat |-> 10,
                            fiber |-> 11]
       [] n = "chapati" -> [calories |-> 120, protein |-> 30,  carbs |-> 200, fat |-> 35,
                            fiber |-> 12]
       [] n = "paneer"  -> [calories |-> 265, protein |-> 180, carbs |-> 36,  fat |-> 210,
                            fiber |-> 0]]

\* Names passed to getNutritionData: three of the table and one outside it.
LookupNames == DOMAIN foodDatabase \cup {"pizza"}

Null ==
  [found |-> FALSE, name |-> "", calories |-> 0, protein |-> 0, carbs |-> 0, fat |-> 0,
   fiber |-> 0]

\* Items of the service's answer; name "" stands for an item without a name.
RemoteItems ==
  {[name |-> n, calories |-> c, protein_g |-> 5, carbohydrates_total_g |-> 250,
    fat_total_g |-> 3, fiber_g |-> 44] :
     n \in {"", "bread", "pizza slice"}, c \in {95, 285}}

\* What axios.get yields: a rejection, or a response whose data is a list.
Responses ==
  {[status |-> "error", data |-> <<>>]} \cup
  {[status |-> "ok", data |-> d] :
     d \in {<<>>} \cup {<<i>> : i \in RemoteItems}
            \cup {<<i, j>> : i \in RemoteItems, j \in RemoteItems}}

\* A fallback that finds nothing.
fallbackFindsNothing(foodName) == Null

\* fallbackToLocalDatabase: if (foodDatabase[foodName]) return
\* { name: foodName, ...foodInfo }; return null.
fallbackToLocalDatabase(foodName) ==
  IF foodName \in DOMAIN foodDatabase
    THEN [found |-> TRUE, name |-> foodName,
          calories |-> foodDatabase[foodName].calories,
          protein |-> foodDatabase[foodName].protein,
          carbs |-> foodDatabase[foodName].carbs,
          fat |-> foodDatabase[foodName].fat,
          fiber |-> foodDatabase[foodName].fiber]
    ELSE Null

\* getNutritionData once the request has settled: with response.data &&
\* response.data.length > 0 the first item, its name defaulting to foodName;
\* otherwise, and in the catch, the fallback.
NutritionDataOf(foodName, response) ==
  IF response.status = "ok" /\ Len(response.data) > 0
    THEN LET item == response.data[1]
         IN [found |-> TRUE,
             name |-> IF item.name # "" THEN item.name ELSE foodName,
             calories |-> item.calories,
             protein |-> item.protein_g,
             carbs |-> item.carbohydrates_total_g,
             fat |-> item.fat_total_g,
             fiber |-> item.fiber_g]
    ELSE fallbackToLocalDatabase(foodName)

outsideLookup == <<storeVars, recipeVars, initVars, mealVars, waterVars, foodVars, homeVars,
                   clock, users, loads, faults>>

\* getNutritionData(foodName) up to await axios.get(...).
getNutritionData(foodName) ==
  /\ lookup.pc = "idle"
  /\ lookup' = [pc |-> "awaiting", foodName |-> foodName]
  /\ UNCHANGED outsideLookup

\* The request settles and getNutritionData returns.
getNutritionData_settle(response) ==
  /\ lookup.pc = "awaiting"
  /\ lookup' = [pc |-> "returned", foodName |-> lookup.foodName, response |-> response,
                 result |-> NutritionDataOf(lookup.foodName, response)]
  /\ UNCHANGED outsideLookup

NextLookup ==
  \/ \E foodName \in LookupNames : getNutritionData(foodName)
  \/ \E response \in Responses : getNutritionData_settle(response)

SpecLookup == InitFood /\ [][NextLookup]_vars

-----------------------------------------------------------------------------
(* HomeScreen: loadFoodLogs, the daily summary and the grouping by meal    *)

\* const TEMP_USER_ID = 1
HomeUserId == 1

\* The entries logged before the home screen loads: Paneer and Samosa, one
\* serving each, under two meal types, and an entry of the day before.
HomeLogInputs ==
  {[user_id |-> HomeUserId, food_id |-> f, quantity |-> 1, meal_type |-> m, date |-> Today] :
     f \in {4, 7}, m \in {"Lunch", "Breakfast"}}
  \cup {[user_id |-> HomeUserId, food_id |-> 4, quantity |-> 1, meal_type |-> "Dinner",
         date |-> Yesterday]}

\* IEEE-754 binary64 addition, round to nearest even, on the sums the home
\* screen forms of up to four entries of HomeLogInputs and of up to two
\* detections of bread and chapati: the additions whose result is not the
\* double nearest to the decimal sum, or whose operands are not.  u counts
\* units in the last place from the double nearest to t tenths: 27.6 + 3.6 =
\* 31.200000000000003, one unit above the double nearest 31.2.  Every other
\* addition of the range gives the tenths and units of its operands added.
RoundedSums ==
  {[a |-> [t |-> 22, u |-> 0], b |-> [t |-> 12, u |-> 0], sum |-> [t |-> 34, u |-> 1]],
   [a |-> [t |-> 27, u |-> 0], b |-> [t |-> 11, u |-> 0], sum |-> [t |-> 38, u |-> 1]],
   [a |-> [t |-> 27, u |-> 0], b |-> [t |-> 12, u |-> 0], sum |-> [t |-> 39, u |-> 1]],
   [a |-> [t |-> 38, u |-> 1], b |-> [t |-> 11, u |-> 0], sum |-> [t |-> 49, u |-> 0]],
   [a |-> [t |-> 38, u |-> 1], b |-> [t |-> 12, u |-> 0], sum |-> [t |-> 50, u |-> 0]],
   [a |-> [t |-> 39, u |-> 1], b |-> [t |-> 11, u |-> 0], sum |-> [t |-> 50, u |-> 0]],
   [a |-> [t |-> 41, u |-> 0], b |-> [t |-> 11, u |-> 0], sum |-> [t |-> 52, u |-> -1]],
   [a |-> [t |-> 41, u |-> 0], b |-> [t |-> 23, u |-> 0], sum |-> [t |-> 64, u |-> -1]],
   [a |-> [t |-> 42, u |-> 0], b |-> [t |-> 11, u |-> 0], sum |-> [t |-> 53, u |-> 1]],
   [a |-> [t |-> 49, u |-> 0], b |-> [t |-> 12, u |-> 0], sum |-> [t |-> 61, u |-> 1]],
   [a |-> [t |-> 53, u |-> 1], b |-> [t |-> 11, u |-> 0], sum |-> [t |-> 64, u |-> 0]],
   [a |-> [t |-> 56, u |-> 0], b |-> [t |-> 11, u |-> 0], sum |-> [t |-> 67, u |-> -1]],
   [a |-> [t |-> 56, u |-> 0], b |-> [t |-> 23, u |-> 0], sum |-> [t |-> 79, u |-> -1]],
   [a |-> [t |-> 57, u |-> 0], b |-> [t |-> 11, u |-> 0], sum |-> [t |-> 68, u |-> 1]],
   [a |-> [t |-> 64, u |-> 0], b |-> [t |-> 12, u |-> 0], sum |-> [t |-> 76, u |-> 1]],
   [a |-> [t |-> 65, u |-> 1], b |-> [t |-> 11, u |-> 0], sum |-> [t |-> 76, u |-> 2]],
   [a |-> [t |-> 68, u |-> 1], b |-> [t |-> 11, u |-> 0], sum |-> [t |-> 79, u |-> 0]],
   [a |-> [t |-> 68, u |-> 1], b |-> [t |-> 12, u |-> 0], sum |-> [t |-> 80, u |-> 0]],
   [a |-> [t |-> 71, u |-> 0], b |-> [t |-> 12, u |-> 0], sum |-> [t |-> 83, u |-> -1]],
   [a |-> [t |-> 71, u |-> 0], b |-> [t |-> 23, u |-> 0], sum |-> [t |-> 94, u |-> -1]],
   [a |-> [t |-> 82, u |-> 0], b |-> [t |-> 12, u |-> 0], sum |-> [t |-> 94, u |-> -1]],
   [a |-> [t |-> 83, u |-> 0], b |-> [t |-> 23, u |-> 0], sum |-> [t |-> 106, u |-> 1]],
   [a |-> [t |-> 276, u |-> 0], b |-> [t |-> 36, u |-> 0], sum |-> [t |-> 312, u |-> 1]],
   [a |-> [t |-> 312, u |-> 1], b |-> [t |-> 36, u |-> 0], sum |-> [t |-> 348, u |-> 1]],
   [a |-> [t |-> 312, u |-> 1], b |-> [t |-> 130, u |-> 0], sum |-> [t |-> 442, u |-> 0]],
   [a |-> [t |-> 312, u |-> 1], b |-> [t |-> 200, u |-> 0], sum |-> [t |-> 512, u |-> 0]],
   [a |-> [t |-> 312, u |-> 1], b |-> [t |-> 240, u |-> 0], sum |-> [t |-> 552, u |-> 0]],
   [a |-> [t |-> 312, u |-> 1], b |-> [t |-> 330, u |-> 0], sum |-> [t |-> 642, u |-> 0]]}

\* a + b on JavaScript numbers.
NumberAdd(a, b) ==
  IF \E e \in RoundedSums : e.a = a /\ e.b = b
    THEN (CHOOSE e \in RoundedSums : e.a = a /\ e.b = b).sum
    ELSE [t |-> a.t + b.t, u |-> a.u + b.u]

\* a * quantity on JavaScript numbers, quantity a small whole number of
\* servings: the entries logged here have quantity 1, which is exact.
NumberTimes(a, quantity) == [t |-> a.t * quantity, u |-> a.u * quantity]

\* The rows of food_logs in descending order of timestamp: the timestamp is
\* the instant of the INSERT, so the newest id comes first.
RECURSIVE OrderByTimestampDesc(_)
OrderByTimestampDesc(rows) ==
  IF rows = {} THEN <<>>
  ELSE LET newest == CHOOSE r \in rows : \A o \in rows : o.id <= r.id
       IN <<newest>> \o OrderByTimestampDesc(rows \ {newest})

\* One row of the join: SELECT fl.id, fl.quantity, fl.meal_type, fi.id as
\* food_id, fi.name, fi.calories, fi.protein, fi.carbs, fi.fat, fi.fiber;
\* calories is a whole number, the others have one fractional digit.
JoinedRow(fl, fi) ==
  [id |-> fl.id, quantity |-> fl.quantity, meal_type |-> fl.meal_type,
   food_id |-> fl.food_id, name |-> fi.name,
   calories |-> Double(10 * fi.calories), protein |-> Double(fi.protein),
   carbs |-> Double(fi.carbs), fat |-> Double(fi.fat), fiber |-> Double(fi.fiber)]

\* getFoodLogsByDate(userId, date): SELECT ... FROM food_logs fl JOIN
\* food_items fi ON fl.food_id = fi.id WHERE fl.user_id = ? AND fl.date = ?
\* ORDER BY fl.timestamp DESC; the catch returns [].
getFoodLogsByDate(userId, date, fail) ==
  IF fail THEN <<>>
  ELSE LET matching == {fl \in food_logs : /\ fl.user_id = userId
                                           /\ fl.date = date
                                           /\ JoinFood(fl.food_id) # {}}
           ordered == OrderByTimestampDesc(matching)
       IN [i \in 1..Len(ordered) |->
             JoinedRow(ordered[i], CHOOSE fi \in JoinFood(ordered[i].food_id) : TRUE)]

\* logs.forEach(log => { calories += log.calories * log.quantity; ... })
\* from let calories = 0, protein = 0, carbs = 0, fat = 0, fiber = 0.
RECURSIVE Accumulate(_, _)
Accumulate(logs, acc) ==
  IF logs = <<>> THEN acc
  ELSE LET log == Head(logs)
       IN Accumulate(Tail(logs),
            [totalCalories |-> NumberAdd(acc.totalCalories, NumberTimes(log.calories, log.quantity)),
             totalProtein  |-> NumberAdd(acc.totalProtein, NumberTimes(log.protein, log.quantity)),
             totalCarbs    |-> NumberAdd(acc.totalCarbs, NumberTimes(log.carbs, log.quantity)),
             totalFat      |-> NumberAdd(acc.totalFat, NumberTimes(log.fat, log.quantity)),
             totalFiber    |-> NumberAdd(acc.totalFiber, NumberTimes(log.fiber, log.quantity))])

outsideHome == <<storeVars, recipeVars, initVars, mealVars, waterVars, foodVars, profile, clock,
                 userVars, lookup>>

\* HomeScreen mounts: useState(new Date()), formattedDate the day of its
\* toISOString, and the effect calls loadFoodLogs.
mountHome ==
  /\ home.pc = "idle"
  /\ home' = [home EXCEPT !.pc = "mounted", !.date = UtcDay(clock),
                           !.pending = {UtcDay(clock)}]
  /\ UNCHANGED <<faults, outsideHome>>

\* loadFoodLogs of the effect run for date, from the moment its await
\* getFoodLogsByDate(TEMP_USER_ID, formattedDate) returns: setFoodLogs(logs);
\* the totals; setDailySummary(prev => ({...prev, totals})).  shownDate
\* records whose logs these are.
loadFoodLogs(date, fail) ==
  /\ date \in home.pending
  /\ txn = NoTxn
  /\ fail => faults < MaxFaults
  /\ LET logs == getFoodLogsByDate(HomeUserId, date, fail)
     IN home' = [home EXCEPT !.pc = "loaded", !.foodLogs = logs,
                             !.dailySummary = Accumulate(logs, ZeroSummary),
                             !.pending = @ \ {date}, !.shownDate = date]
  /\ faults' = IF fail THEN faults + 1 ELSE faults
  /\ UNCHANGED outsideHome

\* goToPreviousDay: setDate(date - 1 day); formattedDate changes and the
\* effect calls loadFoodLogs for it.  The days shown are today and yesterday.
goToPreviousDay ==
  /\ home.pc # "idle" /\ home.date = Today
  /\ home' = [home EXCEPT !.date = Yesterday, !.pending = @ \cup {Yesterday}]
  /\ UNCHANGED <<faults, outsideHome>>

\* goToNextDay: setDate(date + 1 day), and the effect as above.
goToNextDay ==
  /\ home.pc # "idle" /\ home.date = Yesterday
  /\ home' = [home EXCEPT !.date = Today, !.pending = @ \cup {Today}]
  /\ UNCHANGED <<faults, outsideHome>>

\* How many times the camera hands over foods.
MaxDetections == 1

\* What the camera hands over: the records of one or two different foods,
\* here as the local table gives them.
DetectedFoods ==
  {<<fallbackToLocalDatabase(a)>> : a \in {"bread", "chapati"}} \cup
  {<<fallbackToLocalDatabase(p[1]), fallbackToLocalDatabase(p[2])>> :
     p \in {q \in {"bread", "chapati"} \X {"bread", "chapati"} : q[1] # q[2]}}

\* newFoodLog of handleFoodDetected: quantity 1, meal type 'Lunch', and a
\* temporary id Date.now() + Math.random(), a number of no row.
newFoodLog(foodData, position) ==
  [id |-> 1000 + position, name |-> foodData.name,
   calories |-> Double(10 * foodData.calories), protein |-> Double(foodData.protein),
   carbs |-> Double(foodData.carbs), fat |-> Double(foodData.fat),
   fiber |-> Double(foodData.fiber),
   quantity |-> 1, meal_type |-> "Lunch", log_id |-> 1000 + position]

\* foodDataItems.reduce((acc, item) => ({calories: acc.calories +
\* item.calories, ...}), {calories: 0, ...}).
RECURSIVE DetectedTotals(_, _)
DetectedTotals(items, acc) ==
  IF items = <<>> THEN acc
  ELSE LET item == Head(items)
       IN DetectedTotals(Tail(items),
            [totalCalories |-> NumberAdd(acc.totalCalories, Double(10 * item.calories)),
             totalProtein  |-> NumberAdd(acc.totalProtein, Double(item.protein)),
             totalCarbs    |-> NumberAdd(acc.totalCarbs, Double(item.carbs)),
             totalFat      |-> NumberAdd(acc.totalFat, Double(item.fat)),
             totalFiber    |-> NumberAdd(acc.totalFiber, Double(item.fiber))])

\* saveFoodToLog(userId, foodData, quantity, mealType, date): it logs its
\* arguments to the console and returns true; the rows of food_logs after
\* it are the rows before it.
saveFoodToLog(rows, userId, foodData, quantity, mealType, date) == rows

\* handleFoodDetected(foodDataItems): setFoodLogs(prev => [...prev,
\* newFoodLog]) for each item; the totals of the items;
\* setDailySummary(prev => prev + totals); await saveFoodToLog(...) for each
\* item; Alert 'Success'.  accepted records the foods and the formattedDate
\* they were handed to saveFoodToLog with.
handleFoodDetected(foodDataItems) ==
  /\ home.pc # "idle"
  /\ home.detections < MaxDetections
  /\ LET n == Len(home.foodLogs)
         totals == DetectedTotals(foodDataItems, ZeroSummary)
         prev == home.dailySummary
     IN home' = [home EXCEPT
          !.foodLogs = @ \o [i \in 1..Len(foodDataItems) |->
                               newFoodLog(foodDataItems[i], n + i)],
          !.dailySummary =
             [totalCalories |-> NumberAdd(prev.totalCalories, totals.totalCalories),
              totalProtein  |-> NumberAdd(prev.totalProtein, totals.totalProtein),
              totalCarbs    |-> NumberAdd(prev.totalCarbs, totals.totalCarbs),
              totalFat      |-> NumberAdd(prev.totalFat, totals.totalFat),
              totalFiber    |-> NumberAdd(prev.totalFiber, totals.totalFiber)],
          !.detections = @ + 1,
          !.accepted = @ \cup {[name |-> foodDataItems[i].name, date |-> home.date] :
                                 i \in 1..Len(foodDataItems)}]
  /\ food_logs' = saveFoodToLog(food_logs, HomeUserId, foodDataItems, 1, "Lunch", home.date)
  /\ UNCHANGED <<seqFoodLogs, detail, storeVars, recipeVars, initVars, waterVars, foodVars,
                 profile, clock, userVars, lookup, faults>>

\* The first position of each meal type in the logs.
FirstAt(logs, mealType) ==
  CHOOSE i \in 1..Len(logs) :
    /\ logs[i].meal_type = mealType
    /\ \A j \in 1..(i - 1) : logs[j].meal_type # mealType

RECURSIVE InInsertionOrder(_, _)
InInsertionOrder(logs, keys) ==
  IF keys = {} THEN <<>>
  ELSE LET first == CHOOSE k \in keys : \A o \in keys : FirstAt(logs, k) <= FirstAt(logs, o)
       IN <<first>> \o InInsertionOrder(logs, keys \ {first})

\* Object.entries(groupedFoodLogs): the keys of the object the reduce has
\* built, each created at the first log of its meal type (if (!acc[k]) acc[k]
\* = []); string keys that are not array indices, as the meal types are, are
\* enumerated in the order of their creation.
GroupKeys(logs) ==
  InInsertionOrder(logs, {logs[i].meal_type : i \in 1..Len(logs)})

\* A grouping that puts each log in front of its group.
GroupOfUnshift(logs, mealType) ==
  LET g == SelectSeq(logs, LAMBDA log : log.meal_type = mealType)
  IN [i \in 1..Len(g) |-> g[Len(g) + 1 - i]]

\* acc[log.meal_type].push(log), log after log.
GroupOf(logs, mealType) == SelectSeq(logs, LAMBDA log : log.meal_type = mealType)

\* groupedFoodLogs as Object.entries lists it: [mealType, logs] pairs.
groupedFoodLogs(logs) ==
  LET keys == GroupKeys(logs)
  IN [i \in 1..Len(keys) |-> [mealType |-> keys[i], logs |-> GroupOf(logs, keys[i])]]

InitHome == InitFood

NextHome ==
  \/ \E values \in HomeLogInputs : addFoodLog(values, FALSE)
  \/ mountHome
  \/ \E date \in {Yesterday, Today}, fail \in BOOLEAN : loadFoodLogs(date, fail)

SpecHome == InitHome /\ [][NextHome]_vars

\* The entries logged beside the home screen with its day buttons and the
\* camera: a Samosa of today and a Paneer of yesterday.
DayLogInputs ==
  {values \in HomeLogInputs :
     \/ values.food_id = 7 /\ values.meal_type = "Lunch"
     \/ values.date = Yesterday}

NextHomeDays ==
  \/ \E values \in DayLogInputs : addFoodLog(values, FALSE)
  \/ mountHome
  \/ \E date \in {Yesterday, Today} : loadFoodLogs(date, FALSE)
  \/ goToPreviousDay
  \/ goToNextDay
  \/ \E foodDataItems \in DetectedFoods : handleFoodDetected(foodDataItems)

SpecHomeDays == InitHome /\ [][NextHomeDays]_vars

-----------------------------------------------------------------------------
(* ProfileScreen: calculateBMI, getBMICategory and calculateCalorieNeeds   *)

\* Height in cm and weight in kg as saveProfile stores them (parseInt(..) ||
\* 0, so whole numbers, possibly zero or negative); the pairs reach every
\* boundary of the BMI classes, and none of them has a BMI that is an exact
\* tie between two tenths.
BodyInputs ==
  {<<170, 70>>, <<170, 72>>, <<160, 64>>, <<160, 47>>, <<161, 48>>, <<153, 70>>,
   <<145, 63>>, <<0, 70>>, <<170, 0>>, <<-5, 70>>, <<170, -5>>}

ActivityLevels == {"Sedentary", "Light", "Moderate", "Active", "Very Active"}
Goals == {"Lose Weight", "Maintain", "Gain Weight"}

\* The users rows the screen may load.
ProfileInputs ==
  {[age |-> 30, gender |-> g, height |-> b[1], weight |-> b[2],
    activity_level |-> a, goal |-> t, daily_calorie_target |-> 2000, id |-> 1] :
     g \in {"Male", "Female"}, b \in BodyInputs, a \in ActivityLevels, t \in Goals}

\* calculateBMI, in tenths: if (height <= 0 || weight <= 0) return 0;
\* parseFloat((weight / (height/100)^2).toFixed(1))
calculateBMI(p) ==
  IF p.height <= 0 \/ p.weight <= 0 THEN 0
  ELSE MathRound(100000 * p.weight, p.height * p.height)

\* A classification whose upper boundaries are inclusive.
getBMICategoryInclusive(bmi) ==
  IF bmi <= 0 THEN "Not available"
  ELSE IF bmi <= 185 THEN "Underweight"
  ELSE IF bmi <= 250 THEN "Normal weight"
  ELSE IF bmi <= 300 THEN "Overweight"
  ELSE "Obese"

\* getBMICategory(bmi), bmi in tenths.
getBMICategory(bmi) ==
  IF bmi <= 0 THEN "Not available"
  ELSE IF bmi < 185 THEN "Underweight"
  ELSE IF bmi < 250 THEN "Normal weight"
  ELSE IF bmi < 300 THEN "Overweight"
  ELSE "Obese"

\* An activity multiplier that ignores the level.
activityMultiplierSedentary(level) == 48

\* let activityMultiplier = 1.2; switch (profile.activity_level) {...}, in
\* fortieths (1.2, 1.375, 1.55, 1.725 and 1.9 are 48, 55, 62, 69 and 76
\* fortieths), which keeps the product with the rate within 32 bits.
activityMultiplier(level) ==
  CASE level = "Light" -> 55
    [] level = "Moderate" -> 62
    [] level = "Active" -> 69
    [] level = "Very Active" -> 76
    [] OTHER -> 48

\* The basal metabolic rate, in thousandths of a kcal.
bmr(p) ==
  IF p.gender = "Male"
    THEN 88362 + (13397 * p.weight) + (4799 * p.height) - (5677 * p.age)
    ELSE 447593 + (9247 * p.weight) + (3098 * p.height) - (4330 * p.age)

\* switch (profile.goal) { 'Lose Weight': tdee -= 500; 'Gain Weight': tdee += 500 }
goalAdjustment(goal) ==
  CASE goal = "Lose Weight" -> -500
    [] goal = "Gain Weight" -> 500
    [] OTHER -> 0

\* calculateCalorieNeeds: Math.round(bmr * activityMultiplier), then the
\* goal adjustment.
calculateCalorieNeeds(p) ==
  MathRound(bmr(p) * activityMultiplier(p.activity_level), 40000) + goalAdjustment(p.goal)

outsideProfile == <<storeVars, recipeVars, initVars, mealVars, waterVars, foodVars, home, clock,
                    lookup>>

\* createDefaultProfile's defaultProfile.
defaultProfile ==
  [age |-> 30, gender |-> "Male", height |-> 170, weight |-> 70,
   activity_level |-> "Moderate", goal |-> "Maintain", daily_calorie_target |-> 2000]

\* The id SQLite gives a row inserted without one into a table whose id is
\* INTEGER PRIMARY KEY: one more than the largest id present.
NextUserId ==
  IF users = {} THEN 1
  ELSE (CHOOSE r \in users : \A o \in users : o.id <= r.id).id + 1

\* INSERT INTO users (name, age, gender, ...) VALUES (...): no id is given.
UsersRow(values) ==
  [k \in DOMAIN values \cup {"id"} |-> IF k = "id" THEN NextUserId ELSE values[k]]

\* SELECT * FROM users LIMIT 1: the row with the smallest id.
SelectUsersLimit1 == {r \in users : \A o \in users : r.id <= o.id}

\* setProfile(userProfile) with a row of users, and the form fields set from
\* it: setCalorieTarget(userProfile.daily_calorie_target.toString()).
\* calculated, computed and closure follow the Calculate button: whether it
\* was pressed, what calculateCalorieNeeds returned, and the calorieTarget of
\* the render in which it was pressed.
Loaded(row) ==
  [pc |-> "loaded", profile |-> row, bmi |-> 0, category |-> "", shown |-> FALSE,
   calorieTarget |-> row.daily_calorie_target, calculated |-> FALSE,
   computed |-> 0, closure |-> 0, save |-> "none"]

\* useEffect(() => { if (db) loadUserProfile(); }, [db]): the call is made.
mountProfile(l) ==
  /\ l \in {"effect", "remount"}
  /\ loads[l] = "idle"
  /\ loads' = [loads EXCEPT ![l] = "select"]
  /\ UNCHANGED <<users, profile, faults, outsideProfile>>

\* loadUserProfile: await db.getAllAsync('SELECT * FROM users LIMIT 1'); with
\* a row, setProfile and the form fields; with none, createDefaultProfile().
\* The catch alerts 'Failed to load user profile'.
loadUserProfile(l, fail) ==
  /\ loads[l] = "select"
  /\ txn = NoTxn
  /\ IF fail
       THEN /\ faults < MaxFaults
            /\ faults' = faults + 1
            /\ loads' = [loads EXCEPT ![l] = "failed"]
            /\ UNCHANGED profile
       ELSE /\ UNCHANGED faults
            /\ IF SelectUsersLimit1 # {}
                 THEN /\ profile' = Loaded(CHOOSE r \in SelectUsersLimit1 : TRUE)
                      /\ loads' = [loads EXCEPT ![l] = "done"]
                 ELSE /\ loads' = [loads EXCEPT ![l] = "insert"]
                      /\ UNCHANGED profile
  /\ UNCHANGED <<users, outsideProfile>>

\* createDefaultProfile: await db.runAsync('INSERT INTO users (...)');
\* if (result.lastInsertRowId) loadUserProfile().  The catch alerts.
createDefaultProfile(l, fail) ==
  /\ loads[l] = "insert"
  /\ txn = NoTxn
  /\ IF fail
       THEN /\ faults < MaxFaults
            /\ faults' = faults + 1
            /\ loads' = [loads EXCEPT ![l] = "failed"]
            /\ UNCHANGED users
       ELSE /\ users' = users \cup {UsersRow(defaultProfile)}
            /\ loads' = [loads EXCEPT ![l] = "select"]
            /\ UNCHANGED faults
  /\ UNCHANGED <<profile, outsideProfile>>

\* The metrics of the profile view: {calculateBMI()} and
\* {getBMICategory(calculateBMI())}.
showMetrics ==
  /\ profile.pc = "loaded" /\ ~profile.shown
  /\ profile' = [profile EXCEPT !.shown = TRUE,
                                 !.bmi = calculateBMI(profile.profile),
                                 !.category = getBMICategory(calculateBMI(profile.profile))]
  /\ UNCHANGED <<users, loads, faults, outsideProfile>>

\* updateCalorieTarget, run by the Calculate button: if (!profile) return;
\* newTarget = calculateCalorieNeeds(), which calls setCalorieTarget(tdee
\* .toString()) and returns tdee; if (newTarget) saveProfile().  saveProfile
\* is the function of the render in which the button was pressed: the
\* calorieTarget it reads is the one of that render.
pressCalculate ==
  /\ profile.pc = "loaded" /\ ~profile.calculated /\ profile.save = "none"
  /\ LET newTarget == calculateCalorieNeeds(profile.profile)
     IN profile' = [profile EXCEPT !.calculated = TRUE,
                                    !.calorieTarget = newTarget,
                                    !.computed = newTarget,
                                    !.closure = profile.calorieTarget,
                                    !.save = IF newTarget # 0 THEN "update" ELSE "none"]
  /\ UNCHANGED <<users, loads, faults, outsideProfile>>

\* saveProfile up to its reload: await db.runAsync('UPDATE users SET ...,
\* daily_calorie_target = ?, ... WHERE id = ?', ..., parseInt(calorieTarget)
\* || 0, ..., profile.id); loadUserProfile().  The other columns are written
\* from form fields that hold what the profile holds.  The catch alerts
\* 'Failed to save profile changes'.
saveProfile(fail) ==
  /\ profile.pc = "loaded" /\ profile.save = "update"
  /\ loads["saveProfile"] \notin {"select", "insert"}
  /\ txn = NoTxn
  /\ IF fail
       THEN /\ faults < MaxFaults
            /\ faults' = faults + 1
            /\ profile' = [profile EXCEPT !.save = "failed"]
            /\ UNCHANGED <<users, loads>>
       ELSE /\ users' = {IF r.id = profile.profile.id
                           THEN [r EXCEPT !.daily_calorie_target = profile.closure]
                           ELSE r : r \in users}
            /\ profile' = [profile EXCEPT !.save = "saved"]
            /\ loads' = [loads EXCEPT !["saveProfile"] = "select"]
            /\ UNCHANGED faults
  /\ UNCHANGED outsideProfile

\* A started application whose profile screen has loaded its row of users.
InitProfile ==
  /\ food_items = SeededCatalogue
  /\ recipes = {} /\ recipe_ingredients = {} /\ seqRecipes = 0 /\ seqIngredients = 0
  /\ RecipeScreensIdle
  /\ Started
  /\ NoMealLogged /\ NoWaterLogged
  /\ foodForm = NoFoodForm /\ user_food_items = {}
  /\ home = NoHome /\ clock = 1 /\ lookup = NoLookup
  /\ \E row \in ProfileInputs : profile = Loaded(row) /\ users = {row}
  /\ loads = [l \in Loaders |-> IF l = "effect" THEN "done" ELSE "idle"]
  /\ faults = 0

NextProfile ==
  \/ showMetrics
  \/ pressCalculate
  \/ \E fail \in BOOLEAN : saveProfile(fail)
  \/ \E fail \in BOOLEAN : loadUserProfile("saveProfile", fail)

SpecProfile == InitProfile /\ [][NextProfile]_vars

\* The profile screen opened on a store with no row of users, and opened
\* once more while its first load may still be under way.
NextUsers ==
  \/ \E l \in Loaders : mountProfile(l)
  \/ \E l \in Loaders, fail \in BOOLEAN : loadUserProfile(l, fail)
  \/ \E l \in Loaders, fail \in BOOLEAN : createDefaultProfile(l, fail)
  \/ showMetrics
  \/ pressCalculate
  \/ \E fail \in BOOLEAN : saveProfile(fail)

SpecUsers == InitFood /\ [][NextUsers]_vars

-----------------------------------------------------------------------------
(* Dates and timestamps: every path that inserts a log, as time passes     *)

\* Time passes.
tick ==
  /\ clock < Len(Instants)
  /\ clock' = clock + 1
  /\ UNCHANGED <<storeVars, recipeVars, initVars, mealVars, waterVars, foodVars, homeVars,
                 userVars, lookup, faults>>

\* The arguments the screens pass: user 1 and the day the screen computed
\* with new Date().toISOString().split('T')[0].
TodaysFoodLogs == {values \in FoodLogInputs : values.date = Today}
TodaysWaterLogs == {values \in WaterInputs : values.date = Today}

NextDates ==
  \/ tick
  \/ \E values \in TodaysFoodLogs : addFoodLog(values, FALSE)
  \/ \E values \in TodaysWaterLogs : addWaterLog(values, FALSE)
  \/ \E amount \in QuickAddMl : WaterTracker_addWaterLog(amount, FALSE, {})
  \/ \E quantity \in QuantityTexts : handleLogFood(quantity)
  \/ openAddFood
  \/ \E recipeId \in RecipeIds : openRecipeDetail(recipeId)
  \/ loadRecipeDetails(FALSE)
  \/ loadRecipeIngredients(FALSE)
  \/ logRecipeAsMeal

SpecDates == InitMeal /\ [][NextDates]_vars

-----------------------------------------------------------------------------
(* Vocabulary of the claims *)

IngredientRows(rows, recipeId) == {ri \in rows : ri.recipe_id = recipeId}

\* rows hold exactly the entries of list, each as often as the list has it.
SameIngredients(rows, list) ==
  /\ Cardinality(rows) = Len(list)
  /\ \A i \in 1..Len(list) :
       Cardinality({r \in rows : r.food_id = list[i].food_id /\ r.quantity = list[i].quantity})
         = Cardinality({j \in 1..Len(list) : list[j] = list[i]})

RECURSIVE SumCalories(_)
SumCalories(rows) ==
  IF rows = {} THEN 0
  ELSE LET r == CHOOSE x \in rows : TRUE
       IN r.quantity * r.calories + SumCalories(rows \ {r})

\* The total of amount_ml over the rows of logs dated date, row id by row id.
RECURSIVE TotalById(_, _, _)
TotalById(logs, date, n) ==
  IF n = 0 THEN 0
  ELSE LET hit == {r \in logs : r.id = n /\ r.date = date}
       IN (IF hit = {} THEN 0 ELSE (CHOOSE r \in hit : TRUE).amount_ml)
          + TotalById(logs, date, n - 1)

\* Session s has finished op and nobody else has written since it started.
Finished(s, op) == pc[s] = "done" /\ form[s].op = op /\ ~dirty[s]

-----------------------------------------------------------------------------
(* C1: once a save has finished, either the recipe row and one ingredient  *)
(* row per supplied ingredient are all present, or the save has left no    *)
(* row at all.                                                             *)
C1_SaveIsAllOrNothing ==
  \A s \in Sessions :
    Finished(s, "save") =>
      \/ /\ getRecipeById(form[s].recipeId) # {}
         /\ Cardinality(IngredientRows(recipe_ingredients, form[s].recipeId))
              = Len(form[s].ingredients)
      \/ /\ recipes = before[s].recipes
         /\ recipe_ingredients = before[s].recipe_ingredients

(* C2: after an update in which no statement failed, reading the recipe's  *)
(* ingredients returns exactly the new list, and no row of the previous    *)
(* set remains.                                                            *)
C2_UpdateReplacesIngredients ==
  \A s \in Sessions :
    Finished(s, "update") /\ ~failed[s] =>
      /\ SameIngredients(getRecipeIngredients(form[s].recipeId), form[s].ingredients)
      /\ IngredientRows(recipe_ingredients, form[s].recipeId)
           \cap before[s].recipe_ingredients = {}

C2_Witness ==
  \E s \in Sessions :
    /\ Finished(s, "update") /\ ~failed[s]
    /\ Len(form[s].ingredients) = MaxIngredients
    /\ form[s].ingredients[1] = form[s].ingredients[2]
    /\ IngredientRows(before[s].recipe_ingredients, form[s].recipeId) # {}

(* C3: after a delete whose two statements succeeded, the recipe row and   *)
(* its ingredient rows are gone, a read reports not-found, and every other *)
(* recipe and ingredient row is as it was when the delete started.         *)
C3_DeleteRemovesRecipe ==
  \A s \in Sessions :
    Finished(s, "delete") /\ ~failed[s] =>
      /\ getRecipeById(form[s].recipeId) = {}
      /\ RecipeDetailsAlert(getRecipeById(form[s].recipeId)) = "Recipe not found"
      /\ IngredientRows(recipe_ingredients, form[s].recipeId) = {}
      /\ getRecipeIngredients(form[s].recipeId) = {}
      /\ recipes = {r \in before[s].recipes : r.id # form[s].recipeId}
      /\ recipe_ingredients =
           {ri \in before[s].recipe_ingredients : ri.recipe_id # form[s].recipeId}

C3_Witness ==
  \E s \in Sessions :
    /\ Finished(s, "delete") /\ ~failed[s]
    /\ IngredientRows(before[s].recipe_ingredients, form[s].recipeId) # {}
    /\ recipes # {} /\ recipe_ingredients # {}

(* C4: when a statement of an update or of a delete has failed, the        *)
(* recipes and recipe_ingredients tables are as they were before the       *)
(* operation started.                                                      *)
C4_FailureLeavesTablesIntact ==
  \A s \in Sessions :
    (Finished(s, "update") \/ Finished(s, "delete")) /\ failed[s] =>
      /\ recipes = before[s].recipes
      /\ recipe_ingredients = before[s].recipe_ingredients

C10_ConcurrentSavesDoNotMix ==
  \A s \in Sessions, t \in Sessions :
    ( /\ s # t
      /\ pc[s] = "done" /\ form[s].op = "save" /\ ~failed[s]
      /\ pc[t] = "done" /\ form[t].op = "save" /\ ~failed[t] ) =>
      /\ form[s].recipeId # form[t].recipeId
      /\ SameIngredients(getRecipeIngredients(form[s].recipeId), form[s].ingredients)

C10_Witness ==
  \E s \in Sessions, t \in Sessions :
    /\ s # t /\ overlap[t]
    /\ pc[s] = "done" /\ form[s].op = "save" /\ ~failed[s]
    /\ pc[t] = "done" /\ form[t].op = "save" /\ ~failed[t]
    /\ form[s].ingredients # form[t].ingredients

(* C6: a call of initDatabase made after an earlier call has completed     *)
(* without a failed statement finds food_items non-empty and never enters  *)
(* the seeding loop, the only place that writes a row: it leaves every     *)
(* table as it is and does not insert the reference set a second time.     *)
C6_InitIsIdempotent ==
  \A c \in Callers :
    init[c].afterOk =>
      /\ init[c].pc # "populate"
      /\ CountFoodItems > 0

C6_Witness ==
  \E c \in Callers :
    /\ init[c].afterOk /\ init[c].pc = "done" /\ ~init[c].failed
    /\ food_items = SeededCatalogue

(* C7: when a step of App's initDatabase has failed, initDatabase rejects  *)
(* and the application does not become ready.                              *)
C7_InitFailureIsSurfaced ==
  (init["App"].failed /\ init["App"].pc = "done") =>
     /\ initDatabaseOutcome(init["App"]) = "rejected"
     /\ ~isReady

(* C8: once logRecipeAsMeal has run on a loaded recipe, food_logs holds     *)
(* exactly one row with food_id = -1, and its calories, protein, carbs,    *)
(* fat and fiber are the recipe's totals per serving as the screen held    *)
(* them when the meal was logged.                                          *)
C8_LogRecipeAddsOneRow ==
  detail.pc = "logged" =>
    /\ Cardinality({r \in food_logs : r.food_id = RecipeFoodId}) = 1
    /\ \A r \in {x \in food_logs : x.food_id = RecipeFoodId} :
         LET v == RecipeLogValues(detail.recipe, detail.ingredients)
         IN /\ r.calories = v.calories /\ r.protein = v.protein /\ r.carbs = v.carbs
            /\ r.fat = v.fat /\ r.fiber = v.fiber

C11_ReadsSeeNoIntermediateState ==
  detail.pc \in {"details", "shown"} => ~detail.midway

(* C12: a save, update or delete of a recipe in which a statement failed   *)
(* ends with an error reported to the user: it is never silent and never   *)
(* ends on the success path.                                               *)
C12_FailedWriteIsReported ==
  \A s \in Sessions :
    (pc[s] = "done" /\ failed[s]) => alert[s] = "Error"

(* C13: creating a food item with an empty name or with calories below 0   *)
(* is rejected and leaves food_items unchanged; with a non-empty name and  *)
(* calories of 0 or more it is accepted and the row is added.              *)
C13_CreateFoodValidation ==
  (foodForm.op = "create" /\ foodForm.name # " " /\ ~parseInt(foodForm.text).nan) =>
    IF foodForm.name = "" \/ parseInt(foodForm.text).value < 0
      THEN foodForm.alert = "Error" /\ user_food_items = {}
      ELSE /\ foodForm.alert = "Success"
           /\ \E r \in user_food_items :
                r.name = foodForm.name /\ r.calories = parseInt(foodForm.text).value

(* C14: every row of food_logs has quantity > 0 and every row of           *)
(* water_logs has amount_ml > 0, at every moment.                          *)
C14_LoggedAmountsArePositive ==
  /\ \A r \in food_logs : r.quantity > 0
  /\ \A r \in water_logs : r.amount_ml > 0

(* C15: every persisted recipe has a non-empty name and servings of 1 or   *)
(* more, and every persisted ingredient row has a quantity above 0: a      *)
(* create that breaks one of these is rejected with nothing written.       *)
C15_PersistedRecipesAreValid ==
  /\ \A r \in recipes : trim(r.name) # "" /\ r.servings >= 1
  /\ \A ri \in recipe_ingredients : ri.quantity > 0

\* The logs in another order: entry i is entry p[i] of the original.
Reordered(logs, p) == [i \in 1..Len(logs) |-> logs[p[i]]]

(* C16: the daily summary loadFoodLogs computes is all zeros for an empty  *)
(* list of logs, and is the same for every order in which the same entries *)
(* may be listed.                                                          *)
C16_SummaryIsOrderIndependent ==
  home.pc = "loaded" =>
    /\ home.foodLogs = <<>> => home.dailySummary = ZeroSummary
    /\ \A p \in Permutations(1..Len(home.foodLogs)) :
         Accumulate(Reordered(home.foodLogs, p), ZeroSummary) = home.dailySummary

\* The position of the log with a given id.
PositionOf(logs, id) == CHOOSE i \in 1..Len(logs) : logs[i].id = id

(* C17: grouping the loaded logs by meal type puts every log in exactly    *)
(* one group, the group of its own meal type; within a group the logs keep *)
(* the order they have in the list; and the groups are listed in the order *)
(* in which their meal types first occur in the list.                      *)
C17_GroupingPartitionsLogs ==
  home.pc = "loaded" =>
    LET logs == home.foodLogs
        groups == groupedFoodLogs(logs)
    IN /\ \A i \in 1..Len(logs) :
            Cardinality({<<k, j>> \in (1..Len(groups)) \X (1..Len(logs)) :
                           j <= Len(groups[k].logs) /\ groups[k].logs[j] = logs[i]}) = 1
       /\ \A k \in 1..Len(groups) :
            /\ groups[k].logs # <<>>
            /\ \A j \in 1..Len(groups[k].logs) :
                 /\ groups[k].logs[j].meal_type = groups[k].mealType
                 /\ \E i \in 1..Len(logs) : logs[i] = groups[k].logs[j]
            /\ \A j, l \in 1..Len(groups[k].logs) :
                 j < l => PositionOf(logs, groups[k].logs[j].id)
                            < PositionOf(logs, groups[k].logs[l].id)
       /\ \A k, l \in 1..Len(groups) :
            k < l => /\ groups[k].mealType # groups[l].mealType
                     /\ FirstAt(logs, groups[k].mealType) < FirstAt(logs, groups[l].mealType)

C17_Witness ==
  /\ home.pc = "loaded" /\ Len(home.foodLogs) = 3
  /\ home.foodLogs[1].meal_type = "Lunch"
  /\ home.foodLogs[2].meal_type = "Breakfast"
  /\ home.foodLogs[3].meal_type = "Lunch"
  /\ groupedFoodLogs(home.foodLogs) =
       <<[mealType |-> "Lunch", logs |-> <<home.foodLogs[1], home.foodLogs[3]>>],
         [mealType |-> "Breakfast", logs |-> <<home.foodLogs[2]>>]>>

(* C18: the category shown for a BMI is 'Not available' exactly when the   *)
(* BMI is 0 or less, 'Underweight' exactly when it is above 0 and below    *)
(* 18.5, 'Normal weight' exactly from 18.5 to below 25, 'Overweight'       *)
(* exactly from 25 to below 30 and 'Obese' exactly from 30 on; a profile   *)
(* whose height or weight is 0 or less has BMI 0 and is 'Not available'.   *)
C18_BMICategoryBoundaries ==
  profile.pc = "loaded" /\ profile.shown =>
    LET bmi == profile.bmi
        category == profile.category
    IN /\ (category = "Not available") <=> (bmi <= 0)
       /\ (category = "Underweight") <=> (0 < bmi /\ bmi < 185)
       /\ (category = "Normal weight") <=> (185 <= bmi /\ bmi < 250)
       /\ (category = "Overweight") <=> (250 <= bmi /\ bmi < 300)
       /\ (category = "Obese") <=> (bmi >= 300)
       /\ (profile.profile.height <= 0 \/ profile.profile.weight <= 0)
            => (bmi = 0 /\ category = "Not available")

C18_Witness ==
  /\ profile.pc = "loaded" /\ profile.shown
  /\ profile.bmi = 185 /\ profile.category = "Normal weight"

\* The profile of the example: Male, 30, 170 cm, 70 kg, Moderate, Maintain.
ExampleProfile ==
  [age |-> 30, gender |-> "Male", height |-> 170, weight |-> 70,
   activity_level |-> "Moderate", goal |-> "Maintain", daily_calorie_target |-> 2000,
   id |-> 1]

(* C19: for a Male profile aged 30, 170 cm, 70 kg, Moderate, Maintain, the *)
(* calorie target calculateCalorieNeeds computes is 2591: the rounded      *)
(* product of a BMR of 1671.672 and the factor 1.55, with no goal          *)
(* adjustment.                                                             *)
C19_ExampleTargetIs2591 ==
  (profile.pc = "loaded" /\ profile.calculated /\ profile.profile = ExampleProfile) =>
    /\ profile.calorieTarget = 2591
    /\ bmr(profile.profile) = 1671672
    /\ profile.calorieTarget = MathRound(bmr(profile.profile) * 62, 40000)

\* C19 as stated: the target of the example profile is 2626.
C19_ExampleTargetIs2626 ==
  (profile.pc = "loaded" /\ profile.calculated /\ profile.profile = ExampleProfile) =>
    profile.calorieTarget = 2626

C19_Witness ==
  profile.pc = "loaded" /\ profile.calculated /\ profile.profile = ExampleProfile

(* C20: at every moment at most one connection to the store has been      *)
(* opened since the process started.                                       *)
C20_SingleStoreHandle == Cardinality(handles) <= 1

(* C21: every row of food_logs and of water_logs has as its date the      *)
(* local calendar day of its timestamp.                                    *)
C21_DateIsLocalDayOfTimestamp ==
  /\ \A r \in food_logs : r.date = LocalDay(r.timestamp)
  /\ \A r \in water_logs : r.date = LocalDay(r.timestamp)

(* C22: once every load of the profile screen has finished and one of     *)
(* them has shown a profile, users holds exactly one row.                  *)
C22_ProfileIsSingleton ==
  (/\ \A l \in Loaders : loads[l] \in {"idle", "done", "failed"}
   /\ \E l \in Loaders : loads[l] = "done") =>
     Cardinality(users) = 1

(* C29: once the UPDATE made by the Calculate button has run, the           *)
(* daily_calorie_target of the profile's row is the value that              *)
(* calculateCalorieNeeds returned for that press.                           *)
C29_CalculatePersistsComputedTarget ==
  (profile.pc = "loaded" /\ profile.save = "saved") =>
    \A r \in users :
      r.id = profile.profile.id => r.daily_calorie_target = profile.computed

(* C23: getNutritionData returns the service's first record when the      *)
(* service answers with at least one match; when the request fails or      *)
(* matches nothing it returns the static table's record for the name; and  *)
(* it returns null only when the service gave nothing and the name is not  *)
(* in the static table.                                                    *)
C23_RemoteFirstThenLocalFallback ==
  lookup.pc = "returned" =>
    LET name == lookup.foodName
        response == lookup.response
        result == lookup.result
        matched == response.status = "ok" /\ response.data # <<>>
    IN /\ matched =>
            /\ result.found
            /\ result.calories = response.data[1].calories
            /\ result.name \in {response.data[1].name, name}
       /\ (~matched /\ name \in DOMAIN foodDatabase) =>
            /\ result.found
            /\ result.name = name
            /\ result.calories = foodDatabase[name].calories
            /\ result.protein = foodDatabase[name].protein
       /\ ~result.found <=> (~matched /\ name \notin DOMAIN foodDatabase)

\* The request failed and the name is in the static table.
C23_Witness ==
  /\ lookup.pc = "returned"
  /\ lookup.response.status = "error"
  /\ lookup.foodName = "paneer"
  /\ lookup.result.found /\ lookup.result.calories = 265

(* C24: every food accepted from the camera is persisted: once            *)
(* handleFoodDetected has completed, getFoodLogsByDate of the date it was   *)
(* accepted under returns an entry for it.                                  *)
C24_DetectedFoodsArePersisted ==
  \A food \in home.accepted :
    LET logs == getFoodLogsByDate(HomeUserId, food.date, FALSE)
    IN \E i \in 1..Len(logs) : logs[i].name = food.name

(* C27: once every load the home screen has started has returned, the      *)
(* logs and the summary it displays are those of the selected date.        *)
C27_DisplayedDateIsSelectedDate ==
  (home.pc = "loaded" /\ home.pending = {}) => home.shownDate = home.date

(* C28: whenever no load is in flight, each of the five totals of          *)
(* dailySummary is the sum of field times quantity over the displayed      *)
(* foodLogs.                                                               *)
C28_SummaryMatchesDisplayedLogs ==
  (home.pc # "idle" /\ home.pending = {}) =>
    home.dailySummary = Accumulate(home.foodLogs, ZeroSummary)

(* C25: overlapping calls of initDatabase leave one copy of the reference  *)
(* rows: no two calls are in the seeding loop together, and no reference   *)
(* row is ever stored twice.                                               *)
C25_OverlappingInitsSeedOnce ==
  /\ \A c \in Callers, d \in Callers :
       (init[c].pc = "populate" /\ init[d].pc = "populate") => c = d
  /\ \A k \in RefIds : food_items[k] <= 1

(* C26: in a save or an update the 'Success' alert and the navigation     *)
(* back come only after every ingredient insert has been executed, and     *)
(* has succeeded.                                                          *)
C26_SuccessOnlyAfterIngredientInserts ==
  \A s \in Sessions :
    (form[s].op \in {"save", "update"} /\ alert[s] = "Success") =>
      /\ ~failed[s]
      /\ txn.owner = s =>
           \A i \in 1..Len(txn.queue) : txn.queue[i].sql # "INSERT recipe_ingredients"

====
